---- MODULE Spec2Model ----
(***************************************************************************)
(* CoCompiler: the Compiler (semantic analysis and bytecode generation     *)
(* over a scoped SymbolTable) and the stack VM that runs its bytecode.     *)
(*                                                                         *)
(* Instruction indices, jump targets, addresses and string-pool indices    *)
(* are 0-based as in the C++ source; TLA+ sequences are 1-based, so the    *)
(* instruction at program counter pc is bytecode[pc + 1].                  *)
(*                                                                         *)
(* A double is modelled by the exact rational <<n, d>> (d > 0, lowest      *)
(* terms).  The literals used are small integers and dyadic fractions,     *)
(* which a double holds exactly; a quotient stands for the correctly       *)
(* rounded double of that rational.                                        *)
(***************************************************************************)
EXTENDS Integers, Sequences, FiniteSets, TLC

VARIABLES
    compiler,   \* the Compiler object: bytecode, symbolTable, string_literals
    ast,        \* the AST handed to the last compile call
    program,    \* the vector the last compile call returned
    compiled,   \* outcome of the last compile call: "none", "returned", "crashed"
    diag,       \* std::cerr lines of the last compile call
    hist,       \* history of the last compile call (symbols created, jump spans)
    ncompiles,  \* number of compile calls made on the Compiler
    vm,         \* the VM object: bytecode, string_literals, stack, memory, pc
    output,     \* std::cout lines of the print instructions of the current run
    trace,      \* history of the current run (executed pcs, jump decisions)
    table,      \* a stand-alone SymbolTable object exercised directly
    tableHist   \* history of the stand-alone SymbolTable (symbols created)

vars == <<compiler, ast, program, compiled, diag, hist, ncompiles,
          vm, output, trace, table, tableHist>>

----------------------------------------------------------------------------
(* Bounds of the model.                                                    *)

MaxCompiles == 2    \* compile calls on one Compiler
MaxRuns == 2        \* run calls on one VM per compiled program
MaxTableOps == 4    \* direct calls on the stand-alone SymbolTable

----------------------------------------------------------------------------
(* double arithmetic (VM.cpp), on rationals <<n, d>>.                      *)

Abs(i) == IF i < 0 THEN -i ELSE i

RECURSIVE Gcd(_, _)
Gcd(a, b) == IF b = 0 THEN a ELSE Gcd(b, a % b)

Rat(n, d) ==
    LET s == IF d < 0 THEN -1 ELSE 1
        g == Gcd(Abs(n), Abs(d))
    IN  <<(s * n) \div g, (s * d) \div g>>

Dbl(n) == <<n, 1>>

dblAdd(a, b) == Rat(a[1] * b[2] + b[1] * a[2], a[2] * b[2])
dblSub(a, b) == Rat(a[1] * b[2] - b[1] * a[2], a[2] * b[2])
dblMul(a, b) == Rat(a[1] * b[1], a[2] * b[2])
dblDiv(a, b) == Rat(a[1] * b[2], a[2] * b[1])
dblNeg(a) == <<-a[1], a[2]>>
dblLess(a, b) == a[1] * b[2] < b[1] * a[2]
dblIsZero(a) == a[1] = 0

\* static_cast<int>(double): truncation toward zero.
toInt(a) == IF a[1] >= 0 THEN a[1] \div a[2] ELSE -((-a[1]) \div a[2])

----------------------------------------------------------------------------
(* AST nodes (AST.h).  A node is a record tagged by its class.             *)

Null == [kind |-> "Null"]

Literal(tok, num, text) == [kind |-> "Literal", tok |-> tok, num |-> num, text |-> text]
IntLit(n) == Literal("INT_LITERAL", Dbl(n), "")
FloatLit(n, d) == Literal("FLOAT_LITERAL", Rat(n, d), "")
StrLit(s) == Literal("STRING_LITERAL", Dbl(0), s)
BooleanLiteral(tok) == [kind |-> "BooleanLiteral", tok |-> tok]
IdentifierExpression(name) == [kind |-> "IdentifierExpression", name |-> name]
AssignmentExpression(name, value) ==
    [kind |-> "AssignmentExpression", name |-> name, value |-> value]
BinaryExpression(left, op, right) ==
    [kind |-> "BinaryExpression", left |-> left, op |-> op, right |-> right]
UnaryExpression(op, right) == [kind |-> "UnaryExpression", op |-> op, right |-> right]
VariableDeclaration(name, initializer) ==
    [kind |-> "VariableDeclaration", name |-> name, initializer |-> initializer]
IfStatement(condition, thenBranch, elseBranch) ==
    [kind |-> "IfStatement", condition |-> condition,
     thenBranch |-> thenBranch, elseBranch |-> elseBranch]
BlockStatement(statements) == [kind |-> "BlockStatement", statements |-> statements]
PrintStatement(expression) == [kind |-> "PrintStatement", expression |-> expression]
\* An ASTNode subclass the Compiler does not know.
ForeignNode == [kind |-> "ForeignNode"]

\* Literal::getType
literalGetType(node) ==
    IF node.tok = "INT_LITERAL" THEN "INTEGER"
    ELSE IF node.tok = "FLOAT_LITERAL" THEN "FLOAT"
    ELSE IF node.tok = "STRING_LITERAL" THEN "STRING_LITERAL"
    ELSE "UNKNOWN"

\* BinaryExpression::getType, from the operands' getType results.
binaryGetType(op, leftType, rightType) ==
    IF op = "PLUS" /\ leftType = "STRING_LITERAL" /\ rightType = "STRING_LITERAL"
    THEN "STRING_LITERAL"
    ELSE IF op = "PLUS"
            /\ (\/ leftType = "STRING_LITERAL" /\ rightType \in {"INTEGER", "FLOAT"}
                \/ leftType \in {"INTEGER", "FLOAT"} /\ rightType = "STRING_LITERAL")
    THEN "UNKNOWN"
    ELSE IF leftType = "UNKNOWN" \/ rightType = "UNKNOWN" THEN "UNKNOWN"
    ELSE IF leftType = "FLOAT" \/ rightType = "FLOAT" THEN "FLOAT"
    ELSE IF leftType = "INTEGER" \/ rightType = "INTEGER" THEN "INTEGER"
    ELSE IF leftType = "BOOLEAN_LITERAL" \/ rightType = "BOOLEAN_LITERAL"
    THEN "BOOLEAN_LITERAL"
    ELSE "UNKNOWN"

\* The virtual ASTNode::getType.
RECURSIVE getType(_)
getType(node) ==
    CASE node.kind = "Literal" -> literalGetType(node)
      [] node.kind = "BooleanLiteral" -> "BOOLEAN_LITERAL"
      [] node.kind = "IdentifierExpression" -> "IDENTIFIER_EXPRESSION"
      [] node.kind = "AssignmentExpression" -> getType(node.value)
      [] node.kind = "UnaryExpression" -> getType(node.right)
      [] node.kind = "BinaryExpression" ->
            binaryGetType(node.op, getType(node.left), getType(node.right))
      [] node.kind = "VariableDeclaration" -> "VARIABLE_DECLARATION"
      [] node.kind = "IfStatement" -> "IF_STATEMENT"
      [] node.kind = "BlockStatement" -> "BLOCK_STATEMENT"
      [] node.kind = "PrintStatement" -> "PRINT_STATEMENT"
      [] OTHER -> "UNKNOWN"

----------------------------------------------------------------------------
(* SymbolTable (SymbolTable.cpp).  A scope maps names to Symbols; scopes   *)
(* is the stack of scopes, innermost last.                                 *)

Symbol(name, type, address) == [name |-> name, type |-> type, address |-> address]

EmptyScope == [n \in {} |-> Symbol("", "UNKNOWN", 0)]

\* SymbolTable::SymbolTable: next_address(0), then enterScope().
NewSymbolTable == [scopes |-> <<EmptyScope>>, next_address |-> 0]

enterScope(t) == [t EXCEPT !.scopes = Append(@, EmptyScope)]

\* A faulty exitScope: the scope is kept.
exitScopeKeep(t) == t

\* A faulty exitScope: the guard lets the last scope go too.
exitScopePop(t) ==
    IF Len(t.scopes) > 0
    THEN [t EXCEPT !.scopes = SubSeq(@, 1, Len(@) - 1)]
    ELSE t

exitScope(t) ==
    IF Len(t.scopes) > 1
    THEN [t EXCEPT !.scopes = SubSeq(@, 1, Len(@) - 1)]
    ELSE t

\* The cerr line of exitScope, if any.
exitScopeWarning(t) ==
    IF Len(t.scopes) > 1 THEN <<>> ELSE <<"Warning: Attempted to exit global scope.">>

\* A faulty test of addSymbol: every scope is searched for the name.
addSymbolOkAnyScope(t, name) ==
    /\ Len(t.scopes) > 0
    /\ \A i \in 1..Len(t.scopes) : name \notin DOMAIN t.scopes[i]

\* The return value of addSymbol.
addSymbolOk(t, name) ==
    /\ Len(t.scopes) > 0
    /\ name \notin DOMAIN t.scopes[Len(t.scopes)]

\* A faulty addSymbol: the counter is not advanced.
addSymbolReuse(t, name, type) ==
    IF addSymbolOk(t, name)
    THEN [scopes |-> [t.scopes EXCEPT ![Len(t.scopes)] =
                        @ @@ (name :> Symbol(name, type, t.next_address))],
          next_address |-> t.next_address]
    ELSE t

addSymbol(t, name, type) ==
    IF addSymbolOk(t, name)
    THEN [scopes |-> [t.scopes EXCEPT ![Len(t.scopes)] =
                        @ @@ (name :> Symbol(name, type, t.next_address))],
          next_address |-> t.next_address + 1]
    ELSE t

\* A faulty lookup: outermost scope first.
lookupScopeOutermost(t, name) ==
    LET found == {i \in 1..Len(t.scopes) : name \in DOMAIN t.scopes[i]}
    IN  IF found = {} THEN 0 ELSE CHOOSE i \in found : \A j \in found : i <= j

\* The index in scopes of the scope lookupSymbol finds name in; 0 for nullptr.
lookupScope(t, name) ==
    LET found == {i \in 1..Len(t.scopes) : name \in DOMAIN t.scopes[i]}
    IN  IF found = {} THEN 0 ELSE CHOOSE i \in found : \A j \in found : j <= i

\* The Symbol lookupSymbol points to (only where lookupScope is not 0).
lookupSymbol(t, name) == t.scopes[lookupScope(t, name)][name]

----------------------------------------------------------------------------
(* Compiler (Compiler.cpp).  The state threaded through compileNode holds  *)
(* the Compiler's members (bytecode, symbolTable, string_literals), the    *)
(* cerr lines written so far, whether the process has crashed, and history *)
(* fields that no statement of the code reads: failed (an error site was   *)
(* reached), lateEmit (an instruction was emitted after an error site),    *)
(* created (every Symbol addSymbol created, in order) and spans (the       *)
(* instruction ranges of the lowered &&, || and if nodes).                 *)

Bytecode(instruction, operand) == [instruction |-> instruction, operand |-> operand]

\* Bytecode(instruction, operand) with an int operand.
Ins(instruction, operand) == Bytecode(instruction, Dbl(operand))

\* bytecode.push_back(Bytecode(instruction, operand))
Emit(st, instruction, operand) ==
    [st EXCEPT !.bytecode = Append(@, Bytecode(instruction, Dbl(operand))),
               !.lateEmit = @ \/ st.failed]

\* bytecode.push_back(Bytecode(PUSH_FLOAT, value)), value a double.
EmitFloat(st, value) ==
    [st EXCEPT !.bytecode = Append(@, Bytecode("PUSH_FLOAT", value)),
               !.lateEmit = @ \/ st.failed]

\* bytecode[idx].operand = target
\* A faulty backpatch: the placeholder is left as it is.
PatchNothing(st, idx, target) == st

Patch(st, idx, target) == [st EXCEPT !.bytecode[idx + 1].operand = Dbl(target)]

\* An error site: a cerr line, then bytecode.clear().
Fail(st, message) ==
    [st EXCEPT !.bytecode = <<>>, !.diag = Append(@, message), !.failed = TRUE,
               !.discarded = @ + Len(st.bytecode)]

\* if (bytecode.empty()) return;  A crash ends the call as well.
Aborted(st) == st.crashed \/ st.bytecode = <<>>

\* History: the type check of an assignment, with the type the target had,
\* the resolved type of the right-hand side, the outcome and the type the
\* target has afterwards.
Checked(st, symbol, assignedType, accepted, after) ==
    [st EXCEPT !.assigns = Append(@, [name |-> symbol.name, address |-> symbol.address,
                                      recorded |-> symbol.type, assigned |-> assignedType,
                                      accepted |-> accepted, after |-> after])]

Mark(st, span) == [st EXCEPT !.spans = Append(@, span)]

Span(kind, jump, aFrom, aTo, bFrom, bTo, end) ==
    [kind |-> kind, jump |-> jump, aFrom |-> aFrom, aTo |-> aTo,
     bFrom |-> bFrom, bTo |-> bTo, end |-> end]

\* Compiler::getLiteralType
getLiteralType(literal) ==
    IF literal.tok = "INT_LITERAL" THEN "INTEGER"
    ELSE IF literal.tok = "FLOAT_LITERAL" THEN "FLOAT"
    ELSE IF literal.tok = "STRING_LITERAL" THEN "STRING_LITERAL"
    ELSE IF literal.tok \in {"TRUE", "FALSE"} THEN "BOOLEAN_LITERAL"
    ELSE "UNKNOWN"

\* The result of Compiler::resolveExpressionType for a binary expression.
resolveBinaryType(opType, leftType, rightType) ==
    IF opType = "PLUS" /\ leftType = "STRING_LITERAL" /\ rightType = "STRING_LITERAL"
    THEN "STRING_LITERAL"
    ELSE IF /\ leftType \in {"INTEGER", "FLOAT", "BOOLEAN_LITERAL"}
            /\ rightType \in {"INTEGER", "FLOAT", "BOOLEAN_LITERAL"}
    THEN IF leftType = "FLOAT" \/ rightType = "FLOAT" THEN "FLOAT" ELSE "INTEGER"
    ELSE "UNKNOWN"

\* Compiler::resolveExpressionType, against symbol table t.
RECURSIVE resolveExpressionType(_, _)
resolveExpressionType(expr, t) ==
    IF expr.kind = "IdentifierExpression"
    THEN IF lookupScope(t, expr.name) # 0
         THEN lookupSymbol(t, expr.name).type
         ELSE "UNKNOWN"
    ELSE IF expr.kind = "BinaryExpression"
    THEN resolveBinaryType(expr.op, resolveExpressionType(expr.left, t),
                           resolveExpressionType(expr.right, t))
    ELSE getType(expr)

\* The cerr lines resolveExpressionType writes.
RECURSIVE resolveWarnings(_, _)
resolveWarnings(expr, t) ==
    IF expr.kind = "IdentifierExpression"
    THEN IF lookupScope(t, expr.name) # 0
         THEN <<>>
         ELSE <<"Compiler Warning: Attempted to resolve type of undeclared variable">>
    ELSE IF expr.kind = "BinaryExpression"
    THEN resolveWarnings(expr.left, t) \o resolveWarnings(expr.right, t)
    ELSE <<>>

\* The state after a call of resolveExpressionType(expr).
Resolved(st, expr) == [st EXCEPT !.diag = @ \o resolveWarnings(expr, st.symbolTable)]

\* A faulty numeric test: a boolean passes for a number.
IsNumericOrBoolean(type) == type \in {"INTEGER", "FLOAT", "BOOLEAN_LITERAL"}

IsNumeric(type) == type \in {"INTEGER", "FLOAT"}
IsLogical(type) == type \in {"BOOLEAN_LITERAL", "INTEGER"}

\* The operand type a binary expression computes: getLiteralType for a
\* Literal operand, resolveExpressionType for any other.
operandType(operand, t) ==
    IF operand.kind = "Literal" THEN getLiteralType(operand)
    ELSE resolveExpressionType(operand, t)

operandResolved(st, operand) ==
    IF operand.kind = "Literal" THEN st ELSE Resolved(st, operand)

----------------------------------------------------------------------------
(* Compiler::compileNode, one operator per node class.                     *)

RECURSIVE compileNode(_, _, _)

\* Literal: PUSH_INT (std::stoi), PUSH_FLOAT (std::stof) or PUSH_STRING of the
\* index the literal gets in string_literals; any other token emits nothing.
compileLiteral(literal, st) ==
    IF literal.tok = "INT_LITERAL" THEN Emit(st, "PUSH_INT", toInt(literal.num))
    ELSE IF literal.tok = "FLOAT_LITERAL" THEN EmitFloat(st, literal.num)
    ELSE IF literal.tok = "STRING_LITERAL"
    THEN Emit([st EXCEPT !.string_literals = Append(@, literal.text)],
              "PUSH_STRING", Len(st.string_literals))
    ELSE st

\* A faulty lowering of a boolean literal: no instruction is emitted.
compileBooleanLiteralNothing(boolLiteral, st) == st

compileBooleanLiteral(boolLiteral, st) ==
    IF boolLiteral.tok = "TRUE" THEN Emit(st, "PUSH_INT", 1) ELSE Emit(st, "PUSH_INT", 0)

compileIdentifier(identExpr, st) ==
    IF lookupScope(st.symbolTable, identExpr.name) = 0
    THEN Fail(st, "Compiler Error: Undeclared variable")
    ELSE Emit(Emit(st, "PUSH_INT", lookupSymbol(st.symbolTable, identExpr.name).address),
              "LOAD", 0)

\* The type check of an assignment (Compiler.cpp line 136).
typeMismatchStrict(symbolType, assignedType) ==
    symbolType # "UNKNOWN" /\ symbolType # assignedType

typeMismatch(symbolType, assignedType) ==
    symbolType # "UNKNOWN" /\ assignedType # "UNKNOWN" /\ symbolType # assignedType

\* A faulty first-assignment inference: the right-hand type is never adopted.
adoptTypeNever(symbolType, assignedType) == symbolType

\* The type recorded for the target after an assignment that passed the check.
adoptType(symbolType, assignedType) ==
    IF symbolType = "UNKNOWN" THEN assignedType ELSE symbolType

compileAssignment(assignExpr, st, ub) ==
    LET scope == lookupScope(st.symbolTable, assignExpr.name) IN
    IF scope = 0
    THEN Fail(st, "Compiler Error: Assignment to undeclared variable")
    ELSE
    LET s1 == compileNode(assignExpr.value, st, ub) IN
    IF Aborted(s1) THEN s1 ELSE
    LET assignedType == resolveExpressionType(assignExpr.value, s1.symbolTable)
        s2 == Resolved(s1, assignExpr.value)
        symbol == s2.symbolTable.scopes[scope][assignExpr.name]
    IN  IF typeMismatch(symbol.type, assignedType)
        THEN Fail(Checked(s2, symbol, assignedType, FALSE, symbol.type),
                  "Compiler Error: Type mismatch in assignment")
        ELSE
        LET s3 == [s2 EXCEPT !.symbolTable.scopes[scope][assignExpr.name].type =
                                 adoptType(symbol.type, assignedType)]
            after == s3.symbolTable.scopes[scope][assignExpr.name].type
        IN  Emit(Emit(Checked(s3, symbol, assignedType, TRUE, after),
                      "PUSH_INT", symbol.address), "STORE", 0)

\* The conditional jump that guards the right operand of && and of ||.
shortCircuitJumpSwapped(op) == IF op = "AND" THEN "JUMP_IF_TRUE" ELSE "JUMP_IF_FALSE"

shortCircuitJump(op) == IF op = "AND" THEN "JUMP_IF_FALSE" ELSE "JUMP_IF_TRUE"

\* A faulty landing pad: the values of && and || are exchanged.
shortCircuitValueSwapped(op) == IF op = "AND" THEN 1 ELSE 0

\* The value the landing pad pushes.
shortCircuitValue(op) == IF op = "AND" THEN 0 ELSE 1

\* && and ||: left; conditional jump to the landing pad; right; JUMP over
\* the landing pad; the landing pad.
compileLogical(binaryExpr, st, ub) ==
    LET s1 == compileNode(binaryExpr.left, st, ub) IN
    IF Aborted(s1) THEN s1 ELSE
    LET jumpToPad_idx == Len(s1.bytecode)
        s2 == Emit(s1, shortCircuitJump(binaryExpr.op), 0)
        s3 == compileNode(binaryExpr.right, s2, ub)
    IN  IF Aborted(s3) THEN s3 ELSE
        LET jumpToEnd_idx == Len(s3.bytecode)
            s4 == Emit(s3, "JUMP", 0)
            s5 == Patch(s4, jumpToPad_idx, Len(s4.bytecode))
            s6 == Emit(s5, "PUSH_INT", shortCircuitValue(binaryExpr.op))
            s7 == Patch(s6, jumpToEnd_idx, Len(s6.bytecode))
        IN  Mark(s7, Span(binaryExpr.op, jumpToPad_idx, jumpToPad_idx + 1,
                          jumpToEnd_idx - 1, Len(s4.bytecode), Len(s4.bytecode),
                          Len(s6.bytecode)))

\* The instruction of an arithmetic or comparison operator.
operatorInstruction(op) ==
    CASE op = "PLUS" -> "ADD"
      [] op = "MINUS" -> "SUB"
      [] op = "STAR" -> "MUL"
      [] op = "SLASH" -> "DIV"
      [] OTHER -> op   \* GREATER, LESS, GREATER_EQUAL, LESS_EQUAL, EQUAL_EQUAL, BANG_EQUAL

\* left; right; the operator's instruction.
compileOperands(binaryExpr, st, ub, instruction) ==
    LET s1 == compileNode(binaryExpr.left, st, ub) IN
    IF Aborted(s1) THEN s1 ELSE
    LET s2 == compileNode(binaryExpr.right, s1, ub) IN
    IF Aborted(s2) THEN s2 ELSE Emit(s2, instruction, 0)

ComparisonOps ==
    {"GREATER", "LESS", "GREATER_EQUAL", "LESS_EQUAL", "EQUAL_EQUAL", "BANG_EQUAL"}

compileBinary(binaryExpr, st, ub) ==
    LET op == binaryExpr.op
        leftType == operandType(binaryExpr.left, st.symbolTable)
        rightType == operandType(binaryExpr.right, st.symbolTable)
        s0 == operandResolved(operandResolved(st, binaryExpr.left), binaryExpr.right)
    IN  IF op = "AND"
        THEN IF ~(IsLogical(leftType) /\ IsLogical(rightType))
             THEN Fail(s0, "Compiler Error: Logical operator '&&' requires boolean or integer operands.")
             ELSE compileLogical(binaryExpr, s0, ub)
        ELSE IF op = "OR"
        THEN IF ~(IsLogical(leftType) /\ IsLogical(rightType))
             THEN Fail(s0, "Compiler Error: Logical operator '||' requires boolean or integer operands.")
             ELSE compileLogical(binaryExpr, s0, ub)
        ELSE IF op = "PLUS"
        THEN IF leftType = "STRING_LITERAL" /\ rightType = "STRING_LITERAL"
             THEN compileOperands(binaryExpr, s0, ub, "CONCAT_STRING")
             ELSE IF IsNumeric(leftType) /\ IsNumeric(rightType)
             THEN compileOperands(binaryExpr, s0, ub, operatorInstruction(op))
             ELSE Fail(s0, "Compiler Error: Operator '+' requires two numeric operands or two string operands for concatenation.")
        ELSE IF op \in {"MINUS", "STAR", "SLASH"}
        THEN IF ~(IsNumeric(leftType) /\ IsNumeric(rightType))
             THEN Fail(s0, "Compiler Error: Arithmetic operator requires numeric operands.")
             ELSE compileOperands(binaryExpr, s0, ub, operatorInstruction(op))
        ELSE IF op \in ComparisonOps
        THEN IF ~(IsNumeric(leftType) /\ IsNumeric(rightType))
             THEN Fail(s0, "Compiler Error: Comparison operator requires numeric operands.")
             ELSE compileOperands(binaryExpr, s0, ub, operatorInstruction(op))
        ELSE Fail(s0, "Compiler Error: Unknown binary operator.")

compileUnary(unaryExpr, st, ub) ==
    LET s1 == compileNode(unaryExpr.right, st, ub) IN
    IF Aborted(s1) THEN s1
    ELSE IF unaryExpr.op = "BANG" THEN Emit(s1, "NOT", 0)
    ELSE IF unaryExpr.op = "MINUS" THEN Emit(s1, "NEGATE", 0)
    ELSE Fail(s1, "Compiler Error: Unknown unary operator.")

\* `dynamic_cast<IdentifierExpression*>(initializer)->getIdentifier()` is
\* reached whenever initializer->getType() is IDENTIFIER_EXPRESSION.  For a
\* unary or assignment initializer over an identifier the cast yields nullptr
\* and the call is undefined behaviour: the process crashes, or a name is
\* read from whatever memory the read hits.  ub is the outcome: Crash, or
\* the name read.
Crash == "SIGSEGV"
UBOutcomes == {Crash, "", "x"}

nullDereference(initializer) ==
    /\ initializer.kind # "Null"
    /\ getType(initializer) = "IDENTIFIER_EXPRESSION"
    /\ initializer.kind # "IdentifierExpression"

\* The name looked up for an initializer of type IDENTIFIER_EXPRESSION.
initializerName(initializer, ub) ==
    IF initializer.kind = "IdentifierExpression" THEN initializer.name ELSE ub

\* A faulty declaration: the initializer is lowered before the symbol is
\* added to the scope.
declareSymbolLate(varDecl, st, ub, varType) ==
    IF ~addSymbolOk(st.symbolTable, varDecl.name)
    THEN Fail(st, "Error: Symbol already exists in the current scope.")
    ELSE
    LET s1 == IF varDecl.initializer.kind = "Null" THEN st
              ELSE compileNode(varDecl.initializer, st, ub)
        s2 == [s1 EXCEPT !.symbolTable = addSymbol(@, varDecl.name, varType),
                         !.created = Append(@, Symbol(varDecl.name, varType,
                                                      s1.symbolTable.next_address))]
    IN  IF varDecl.initializer.kind = "Null" THEN s2
        ELSE IF Aborted(s1) THEN s1
        ELSE Emit(Emit(s2, "PUSH_INT", lookupSymbol(s2.symbolTable, varDecl.name).address),
                  "STORE", 0)

\* addSymbol, then the initializer and the store to the new symbol.
declareSymbol(varDecl, st, ub, varType) ==
    IF ~addSymbolOk(st.symbolTable, varDecl.name)
    THEN Fail(st, "Error: Symbol already exists in the current scope.")
    ELSE
    LET s1 == [st EXCEPT !.symbolTable = addSymbol(@, varDecl.name, varType),
                         !.created = Append(@, Symbol(varDecl.name, varType,
                                                      st.symbolTable.next_address))]
    IN  IF varDecl.initializer.kind = "Null" THEN s1
        ELSE
        LET s2 == compileNode(varDecl.initializer, s1, ub) IN
        IF Aborted(s2) THEN s2
        ELSE Emit(Emit(s2, "PUSH_INT", lookupSymbol(s2.symbolTable, varDecl.name).address),
                  "STORE", 0)

compileVariableDeclaration(varDecl, st, ub) ==
    LET initializer == varDecl.initializer IN
    IF initializer.kind = "Null" THEN declareSymbol(varDecl, st, ub, "UNKNOWN")
    ELSE IF getType(initializer) # "IDENTIFIER_EXPRESSION"
    THEN declareSymbol(varDecl, st, ub, getType(initializer))
    ELSE IF nullDereference(initializer) /\ ub = Crash
    THEN [st EXCEPT !.crashed = TRUE]
    ELSE IF lookupScope(st.symbolTable, initializerName(initializer, ub)) = 0
    THEN Fail(st, "Compiler Error: Initializer is an undeclared variable")
    ELSE declareSymbol(varDecl, st, ub,
                       lookupSymbol(st.symbolTable, initializerName(initializer, ub)).type)

\* symbolTable.exitScope(), with its cerr line.
ExitScope(st) ==
    [st EXCEPT !.symbolTable = exitScope(@),
               !.diag = @ \o exitScopeWarning(st.symbolTable)]

\* The for loop of a block: returned is TRUE when the loop left compileNode
\* by `if (bytecode.empty()) return;` (or the process crashed).
RECURSIVE blockLoop(_, _, _)
blockLoop(statements, st, ub) ==
    IF statements = <<>> THEN [st |-> st, returned |-> FALSE]
    ELSE LET s1 == compileNode(Head(statements), st, ub) IN
         IF Aborted(s1) THEN [st |-> s1, returned |-> TRUE]
         ELSE blockLoop(Tail(statements), s1, ub)

compileBlock(blockStmt, st, ub) ==
    LET loop == blockLoop(blockStmt.statements,
                          [st EXCEPT !.symbolTable = enterScope(@)], ub)
    IN  IF loop.returned THEN loop.st ELSE ExitScope(loop.st)

compileIf(ifStmt, st, ub) ==
    LET s1 == compileNode(ifStmt.condition, st, ub) IN
    IF Aborted(s1) THEN s1 ELSE
    LET jumpIfFalseAddress == Len(s1.bytecode)
        s2 == Emit(s1, "JUMP_IF_FALSE", 0)
        s3 == compileNode(ifStmt.thenBranch, s2, ub)
    IN  IF Aborted(s3) THEN s3 ELSE
        LET hasElse == ifStmt.elseBranch.kind # "Null"
            jumpToEndAddress == Len(s3.bytecode)
            s4 == IF hasElse THEN Emit(s3, "JUMP", 0) ELSE s3
            s5 == Patch(s4, jumpIfFalseAddress, Len(s4.bytecode))
        IN  IF ~hasElse
            THEN Mark(s5, Span("IF", jumpIfFalseAddress, jumpIfFalseAddress + 1,
                               Len(s3.bytecode) - 1, Len(s5.bytecode),
                               Len(s5.bytecode) - 1, Len(s5.bytecode)))
            ELSE
            LET s6 == compileNode(ifStmt.elseBranch, s5, ub) IN
            IF Aborted(s6) THEN s6
            ELSE Mark(Patch(s6, jumpToEndAddress, Len(s6.bytecode)),
                      Span("IF", jumpIfFalseAddress, jumpIfFalseAddress + 1,
                           Len(s3.bytecode) - 1, Len(s4.bytecode),
                           Len(s6.bytecode) - 1, Len(s6.bytecode)))

\* A faulty PrintStatement lowering: the failure of the expression is not
\* propagated (the test of line 438 is missing).
compilePrintUnchecked(printStmt, st, ub) ==
    LET s1 == compileNode(printStmt.expression, st, ub) IN
    IF s1.crashed THEN s1
    ELSE IF resolveExpressionType(printStmt.expression, s1.symbolTable) = "STRING_LITERAL"
    THEN Emit(Resolved(s1, printStmt.expression), "PRINT_STRING", 0)
    ELSE Emit(Resolved(s1, printStmt.expression), "PRINT_VALUE", 0)

compilePrint(printStmt, st, ub) ==
    LET s1 == compileNode(printStmt.expression, st, ub) IN
    IF Aborted(s1) THEN s1
    ELSE IF resolveExpressionType(printStmt.expression, s1.symbolTable) = "STRING_LITERAL"
    THEN Emit(Resolved(s1, printStmt.expression), "PRINT_STRING", 0)
    ELSE Emit(Resolved(s1, printStmt.expression), "PRINT_VALUE", 0)

compileNode(node, st, ub) ==
    CASE node.kind = "Null" -> st
      [] node.kind = "Literal" -> compileLiteral(node, st)
      [] node.kind = "BooleanLiteral" -> compileBooleanLiteral(node, st)
      [] node.kind = "IdentifierExpression" -> compileIdentifier(node, st)
      [] node.kind = "AssignmentExpression" -> compileAssignment(node, st, ub)
      [] node.kind = "BinaryExpression" -> compileBinary(node, st, ub)
      [] node.kind = "UnaryExpression" -> compileUnary(node, st, ub)
      [] node.kind = "VariableDeclaration" -> compileVariableDeclaration(node, st, ub)
      [] node.kind = "BlockStatement" -> compileBlock(node, st, ub)
      [] node.kind = "IfStatement" -> compileIf(node, st, ub)
      [] node.kind = "PrintStatement" -> compilePrint(node, st, ub)
      [] OTHER -> Fail(st, "Compiler Error: Unknown AST node type encountered.")

\* Compiler::Compiler
NewCompiler ==
    [bytecode |-> <<>>, symbolTable |-> NewSymbolTable, string_literals |-> <<>>]

\* The state compileNode starts from in a compile call on Compiler c:
\* bytecode.clear(); symbolTable.enterScope().
compileEntry(c) ==
    [bytecode |-> <<>>, symbolTable |-> enterScope(c.symbolTable),
     string_literals |-> c.string_literals, diag |-> <<>>, crashed |-> FALSE,
     failed |-> FALSE, lateEmit |-> FALSE, discarded |-> 0, created |-> <<>>,
     spans |-> <<>>, assigns |-> <<>>]

\* A faulty compile: the returned Program lacks its final HALT.
compileNoHalt(c, node, ub) ==
    LET s1 == compileNode(node, compileEntry(c), ub) IN
    IF s1.crashed THEN s1 ELSE ExitScope(s1)

\* Compiler::compile on Compiler c: the state when the call ends; its
\* bytecode field is both the member and, unless the call crashed, the
\* vector returned.
compile(c, node, ub) ==
    LET s1 == compileNode(node, compileEntry(c), ub) IN
    IF s1.crashed THEN s1
    ELSE LET s2 == ExitScope(s1) IN
         IF node.kind = "Null" \/ s2.bytecode = <<>> THEN s2 ELSE Emit(s2, "HALT", 0)

----------------------------------------------------------------------------
(* std::cout << double (default format: six significant digits, trailing   *)
(* zeros dropped, exponent form below 1e-4 and from 1e6).                  *)

Digit(d) ==
    CASE d = 0 -> "0" [] d = 1 -> "1" [] d = 2 -> "2" [] d = 3 -> "3" [] d = 4 -> "4"
      [] d = 5 -> "5" [] d = 6 -> "6" [] d = 7 -> "7" [] d = 8 -> "8" [] d = 9 -> "9"

RECURSIVE NatToString(_)
NatToString(n) == IF n < 10 THEN Digit(n) ELSE NatToString(n \div 10) \o Digit(n % 10)

RECURSIVE Pow10(_)
Pow10(k) == IF k = 0 THEN 1 ELSE 10 * Pow10(k - 1)

\* The decimal exponent of the positive rational n/d: the x with
\* 10^x <= n/d < 10^(x+1), searched from x away from 0.
RECURSIVE Exponent10(_, _, _)
Exponent10(n, d, x) ==
    IF x >= 0
    THEN IF n < d * Pow10(x + 1) THEN x ELSE Exponent10(n, d, x + 1)
    ELSE IF n * Pow10(-x) >= d THEN x ELSE Exponent10(n, d, x - 1)

\* n/d rounded to the nearest integer, ties to even.
RoundHalfEven(n, d) ==
    LET q == n \div d
        r == n % d
    IN  IF 2 * r < d THEN q
        ELSE IF 2 * r > d THEN q + 1
        ELSE IF q % 2 = 0 THEN q ELSE q + 1

\* The digits of m (six of them) without its trailing zeros, at least keep.
RECURSIVE StripZeros(_, _, _)
StripZeros(m, len, keep) ==
    IF len > keep /\ m % 10 = 0 THEN StripZeros(m \div 10, len - 1, keep)
    ELSE [m |-> m, len |-> len]

\* The six significant digits m of a value with decimal exponent x, printed.
FormatDigits(m, x) ==
    IF x < -4 \/ x >= 6
    THEN LET t == StripZeros(m, 6, 1)
             lead == t.m \div Pow10(t.len - 1)
             rest == t.m % Pow10(t.len - 1)
             ex == IF x < 0 THEN -x ELSE x
         IN  Digit(lead)
             \o (IF t.len > 1
                 THEN "." \o SubSeq(NatToString(Pow10(t.len - 1) + rest), 2, t.len)
                 ELSE "")
             \o (IF x < 0 THEN "e-" ELSE "e+")
             \o (IF ex < 10 THEN "0" ELSE "") \o NatToString(ex)
    ELSE IF x >= 0
    THEN LET t == StripZeros(m, 6, x + 1)
             frac == t.len - (x + 1)
             whole == t.m \div Pow10(frac)
             rest == t.m % Pow10(frac)
         IN  NatToString(whole)
             \o (IF frac > 0
                 THEN "." \o SubSeq(NatToString(Pow10(frac) + rest), 2, frac + 1)
                 ELSE "")
    ELSE LET t == StripZeros(m, 6, 1)
         IN  "0." \o SubSeq(NatToString(Pow10(-x - 1 + t.len) + t.m), 2, -x + t.len)

FormatDouble(val) ==
    IF val[1] = 0 THEN "0"
    ELSE
    LET n == Abs(val[1])
        d == val[2]
        x0 == Exponent10(n, d, IF n >= d THEN 0 ELSE -1)
        m0 == IF x0 <= 5 THEN RoundHalfEven(n * Pow10(5 - x0), d)
              ELSE RoundHalfEven(n, d * Pow10(x0 - 5))
        x == IF m0 = 1000000 THEN x0 + 1 ELSE x0
        m == IF m0 = 1000000 THEN 100000 ELSE m0
    IN  (IF val[1] < 0 THEN "-" ELSE "") \o FormatDigits(m, x)

----------------------------------------------------------------------------
(* VM (VM.cpp).  status is "idle" before the first run, "running" inside   *)
(* the loop of run, "halted" after run returned through HALT and "error"   *)
(* after it returned -1; result is the value run returned.                 *)

\* VM::VM
NewVM ==
    [bytecode |-> <<>>, string_literals |-> <<>>, stack |-> <<>>, memory |-> <<>>,
     pc |-> 0, status |-> "idle", result |-> Dbl(0), error |-> ""]

\* The entry of VM::run: copy the arguments, clear stack and memory, pc = 0.
\* A faulty entry of run: memory.clear() is missing.
vmRunEntryKeepMemory(v, bytecode, string_literals) ==
    [bytecode |-> bytecode, string_literals |-> string_literals, stack |-> <<>>,
     memory |-> v.memory, pc |-> 0, status |-> "running", result |-> Dbl(0), error |-> ""]

vmRunEntry(v, bytecode, string_literals) ==
    [bytecode |-> bytecode, string_literals |-> string_literals, stack |-> <<>>,
     memory |-> <<>>, pc |-> 0, status |-> "running", result |-> Dbl(0), error |-> ""]

\* std::cerr << "VM Error: ..."; return -1;
\* A faulty error exit: the message is written and the loop goes on.
vmErrorContinues(v, message) == [v EXCEPT !.result = Dbl(-1), !.error = message]

vmError(v, message) == [v EXCEPT !.status = "error", !.result = Dbl(-1), !.error = message]

Top(stack) == stack[Len(stack)]
Pop(stack, k) == SubSeq(stack, 1, Len(stack) - k)

vmPush(v, instruction) == [v EXCEPT !.stack = Append(@, instruction.operand)]

vmAdd(v) ==
    IF Len(v.stack) < 2 THEN vmError(v, "VM Error: Stack underflow for ADD.")
    ELSE LET val2 == Top(v.stack)
             val1 == Top(Pop(v.stack, 1))
         IN  [v EXCEPT !.stack = Append(Pop(@, 2), dblAdd(val1, val2))]

\* A faulty SUB: the operands are taken in the other order.
vmSubSwapped(v) ==
    IF Len(v.stack) < 2 THEN vmError(v, "VM Error: Stack underflow for SUB.")
    ELSE LET val2 == Top(v.stack)
             val1 == Top(Pop(v.stack, 1))
         IN  [v EXCEPT !.stack = Append(Pop(@, 2), dblSub(val2, val1))]

vmSub(v) ==
    IF Len(v.stack) < 2 THEN vmError(v, "VM Error: Stack underflow for SUB.")
    ELSE LET val2 == Top(v.stack)
             val1 == Top(Pop(v.stack, 1))
         IN  [v EXCEPT !.stack = Append(Pop(@, 2), dblSub(val1, val2))]

vmMul(v) ==
    IF Len(v.stack) < 2 THEN vmError(v, "VM Error: Stack underflow for MUL.")
    ELSE LET val2 == Top(v.stack)
             val1 == Top(Pop(v.stack, 1))
         IN  [v EXCEPT !.stack = Append(Pop(@, 2), dblMul(val1, val2))]

vmDiv(v) ==
    IF Len(v.stack) < 2 THEN vmError(v, "VM Error: Stack underflow for DIV.")
    ELSE LET val2 == Top(v.stack)
             val1 == Top(Pop(v.stack, 1))
         IN  IF dblIsZero(val2)
             THEN vmError([v EXCEPT !.stack = Pop(@, 1)], "VM Error: Division by zero.")
             ELSE [v EXCEPT !.stack = Append(Pop(@, 2), dblDiv(val1, val2))]

vmNegate(v) ==
    IF v.stack = <<>> THEN vmError(v, "VM Error: Stack underflow for NEGATE.")
    ELSE [v EXCEPT !.stack = Append(Pop(@, 1), dblNeg(Top(v.stack)))]

vmPop(v) ==
    IF v.stack = <<>> THEN vmError(v, "VM Error: Stack underflow for POP.")
    ELSE [v EXCEPT !.stack = Pop(@, 1)]

\* memory.resize(address + 1): new cells are 0.
Resize(memory, size) ==
    [i \in 1..size |-> IF i <= Len(memory) THEN memory[i] ELSE Dbl(0)]

\* A faulty STORE: the value is not pushed back.
vmStoreNoValue(v) ==
    IF Len(v.stack) < 2 THEN vmError(v, "VM Error: Stack underflow for STORE.")
    ELSE LET address == toInt(Top(v.stack))
             value == Top(Pop(v.stack, 1))
         IN  IF address < 0
             THEN vmError([v EXCEPT !.stack = Pop(@, 2)],
                          "VM Error: Invalid memory address for STORE")
             ELSE [v EXCEPT
                     !.memory = [(IF address >= Len(@) THEN Resize(@, address + 1) ELSE @)
                                   EXCEPT ![address + 1] = value],
                     !.stack = Pop(@, 2)]

vmStore(v) ==
    IF Len(v.stack) < 2 THEN vmError(v, "VM Error: Stack underflow for STORE.")
    ELSE LET address == toInt(Top(v.stack))
             value == Top(Pop(v.stack, 1))
         IN  IF address < 0
             THEN vmError([v EXCEPT !.stack = Pop(@, 2)],
                          "VM Error: Invalid memory address for STORE")
             ELSE [v EXCEPT
                     !.memory = [(IF address >= Len(@) THEN Resize(@, address + 1) ELSE @)
                                   EXCEPT ![address + 1] = value],
                     !.stack = Append(Pop(@, 2), value)]

vmLoad(v) ==
    IF Len(v.stack) < 1 THEN vmError(v, "VM Error: Stack underflow for LOAD.")
    ELSE LET address == toInt(Top(v.stack)) IN
         IF address < 0 \/ address >= Len(v.memory)
         THEN vmError([v EXCEPT !.stack = Pop(@, 1)],
                      "VM Error: Invalid memory address for LOAD")
         ELSE [v EXCEPT !.stack = Append(Pop(@, 1), v.memory[address + 1])]

\* A faulty HALT: it returns 0 whatever the stack holds.
vmHaltZero(v) == [v EXCEPT !.status = "halted", !.result = Dbl(0)]

vmHalt(v) ==
    [v EXCEPT !.status = "halted",
              !.result = IF v.stack = <<>> THEN Dbl(0) ELSE Top(v.stack)]

\* A faulty JUMP_IF_FALSE: the jump is taken on a non-zero condition.
vmJumpIfFalseInverted(v, instruction) ==
    IF v.stack = <<>> THEN vmError(v, "VM Error: Stack underflow for JUMP_IF_FALSE.")
    ELSE [v EXCEPT !.stack = Pop(@, 1),
                   !.pc = IF dblIsZero(Top(v.stack)) THEN @ ELSE toInt(instruction.operand)]

vmJumpIfFalse(v, instruction) ==
    IF v.stack = <<>> THEN vmError(v, "VM Error: Stack underflow for JUMP_IF_FALSE.")
    ELSE [v EXCEPT !.stack = Pop(@, 1),
                   !.pc = IF dblIsZero(Top(v.stack)) THEN toInt(instruction.operand) ELSE @]

vmJump(v, instruction) == [v EXCEPT !.pc = toInt(instruction.operand)]

vmJumpIfTrue(v, instruction) ==
    IF v.stack = <<>> THEN vmError(v, "VM Error: Stack underflow for JUMP_IF_TRUE.")
    ELSE [v EXCEPT !.stack = Pop(@, 1),
                   !.pc = IF ~dblIsZero(Top(v.stack)) THEN toInt(instruction.operand) ELSE @]

\* The bool a comparison instruction computes from val1 (pushed first) and val2.
compareResult(instruction, val1, val2) ==
    CASE instruction = "GREATER" -> dblLess(val2, val1)
      [] instruction = "LESS" -> dblLess(val1, val2)
      [] instruction = "GREATER_EQUAL" -> ~dblLess(val1, val2)
      [] instruction = "LESS_EQUAL" -> ~dblLess(val2, val1)
      [] instruction = "EQUAL_EQUAL" -> val1 = val2
      [] instruction = "BANG_EQUAL" -> val1 # val2

vmCompare(v, instruction) ==
    IF Len(v.stack) < 2 THEN vmError(v, "VM Error: Stack underflow for comparison.")
    ELSE LET val2 == Top(v.stack)
             val1 == Top(Pop(v.stack, 1))
         IN  [v EXCEPT !.stack = Append(Pop(@, 2),
                  IF compareResult(instruction, val1, val2) THEN Dbl(1) ELSE Dbl(0))]

vmNot(v) ==
    IF v.stack = <<>> THEN vmError(v, "VM Error: Stack underflow for NOT.")
    ELSE [v EXCEPT !.stack = Append(Pop(@, 1),
                                    IF dblIsZero(Top(v.stack)) THEN Dbl(1) ELSE Dbl(0))]

validStringIndex(v, idx) == idx >= 0 /\ idx < Len(v.string_literals)

\* A faulty CONCAT_STRING: the second string comes first.
vmConcatStringSwapped(v) ==
    IF Len(v.stack) < 2 THEN vmError(v, "VM Error: Stack underflow for CONCAT_STRING.")
    ELSE LET string_idx2 == toInt(Top(v.stack))
             string_idx1 == toInt(Top(Pop(v.stack, 1)))
         IN  IF ~validStringIndex(v, string_idx1) \/ ~validStringIndex(v, string_idx2)
             THEN vmError([v EXCEPT !.stack = Pop(@, 2)],
                          "VM Error: Invalid string literal index for CONCAT_STRING.")
             ELSE [v EXCEPT
                     !.string_literals = Append(@, v.string_literals[string_idx2 + 1]
                                                   \o v.string_literals[string_idx1 + 1]),
                     !.stack = Append(Pop(@, 2), Dbl(Len(v.string_literals)))]

vmConcatString(v) ==
    IF Len(v.stack) < 2 THEN vmError(v, "VM Error: Stack underflow for CONCAT_STRING.")
    ELSE LET string_idx2 == toInt(Top(v.stack))
             string_idx1 == toInt(Top(Pop(v.stack, 1)))
         IN  IF ~validStringIndex(v, string_idx1) \/ ~validStringIndex(v, string_idx2)
             THEN vmError([v EXCEPT !.stack = Pop(@, 2)],
                          "VM Error: Invalid string literal index for CONCAT_STRING.")
             ELSE [v EXCEPT
                     !.string_literals = Append(@, v.string_literals[string_idx1 + 1]
                                                   \o v.string_literals[string_idx2 + 1]),
                     !.stack = Append(Pop(@, 2), Dbl(Len(v.string_literals)))]

\* The line PRINT_VALUE writes for val.
printValueLine(val) ==
    IF val = Dbl(0) THEN "false"
    ELSE IF val = Dbl(1) THEN "true"
    ELSE FormatDouble(val)

vmPrintValue(v) ==
    IF v.stack = <<>> THEN vmError(v, "VM Error: Stack underflow for PRINT_VALUE.")
    ELSE [v EXCEPT !.stack = Pop(@, 1)]

vmPrintString(v) ==
    IF v.stack = <<>> THEN vmError(v, "VM Error: Stack underflow for PRINT_STRING.")
    ELSE IF ~validStringIndex(v, toInt(Top(v.stack)))
    THEN vmError([v EXCEPT !.stack = Pop(@, 1)],
                 "VM Error: Invalid string literal index for PRINT_STRING.")
    ELSE [v EXCEPT !.stack = Pop(@, 1)]

\* The lines one iteration of the loop writes to std::cout (print
\* instructions only; the DEBUG trace lines are left out).
vmPrinted(v, instruction) ==
    IF instruction.instruction = "PRINT_VALUE" /\ v.stack # <<>>
    THEN <<printValueLine(Top(v.stack))>>
    ELSE IF /\ instruction.instruction = "PRINT_STRING" /\ v.stack # <<>>
            /\ validStringIndex(v, toInt(Top(v.stack)))
    THEN <<v.string_literals[toInt(Top(v.stack)) + 1]>>
    ELSE <<>>

\* A faulty AND / OR case: the two operands are replaced by a truth value.
vmLogicalEvaluates(v) == [v EXCEPT !.stack = Append(Pop(@, 2), Dbl(1))]

\* case Instruction::AND, case Instruction::OR.
vmLogical(v) ==
    vmError(v, "VM Error: Encountered logical operator instruction (AND/OR) directly.")

\* The switch of VM::run, on the VM with pc already incremented.
vmDispatch(v, instruction) ==
    LET i == instruction.instruction IN
    CASE i \in {"PUSH_INT", "PUSH_FLOAT", "PUSH_STRING"} -> vmPush(v, instruction)
      [] i = "ADD" -> vmAdd(v)
      [] i = "SUB" -> vmSub(v)
      [] i = "MUL" -> vmMul(v)
      [] i = "DIV" -> vmDiv(v)
      [] i = "NEGATE" -> vmNegate(v)
      [] i = "POP" -> vmPop(v)
      [] i = "STORE" -> vmStore(v)
      [] i = "LOAD" -> vmLoad(v)
      [] i = "HALT" -> vmHalt(v)
      [] i = "JUMP_IF_FALSE" -> vmJumpIfFalse(v, instruction)
      [] i = "JUMP" -> vmJump(v, instruction)
      [] i = "JUMP_IF_TRUE" -> vmJumpIfTrue(v, instruction)
      [] i \in ComparisonOps -> vmCompare(v, i)
      [] i = "NOT" -> vmNot(v)
      [] i \in {"AND", "OR"} -> vmLogical(v)
      [] i = "CONCAT_STRING" -> vmConcatString(v)
      [] i = "PRINT_VALUE" -> vmPrintValue(v)
      [] i = "PRINT_STRING" -> vmPrintString(v)
      [] OTHER -> vmError(v, "VM Error: Unknown instruction")

\* while (pc < bytecode.size()), pc an int compared as size_t.
vmInLoop(v) == v.pc >= 0 /\ v.pc < Len(v.bytecode)

\* One iteration of the loop of run, or the fall-through behind the loop.
vmStep(v) ==
    IF vmInLoop(v)
    THEN vmDispatch([v EXCEPT !.pc = @ + 1], v.bytecode[v.pc + 1])
    ELSE vmError(v, "VM Error: Program did not halt. Missing HALT instruction or infinite loop.")

----------------------------------------------------------------------------
(* The ASTs handed to compile.  Each family varies one construct over      *)
(* small sets of operands; Programs is their union.                        *)

Stmts(seq) == BlockStatement(seq)
Var(name) == IdentifierExpression(name)
True == BooleanLiteral("TRUE")
False == BooleanLiteral("FALSE")

NumLits == {IntLit(0), IntLit(1), IntLit(4), IntLit(20), FloatLit(5, 2)}
ArithOps == {"PLUS", "MINUS", "STAR", "SLASH"}

\* a op b on literals, and on variables holding them.
ArithLiteralPrograms == {BinaryExpression(a, op, b) : a \in NumLits, b \in NumLits, op \in ArithOps}
ArithVariableProgram(a, op, b) ==
    Stmts(<<VariableDeclaration("x", a), VariableDeclaration("y", b),
            PrintStatement(BinaryExpression(Var("x"), op, Var("y")))>>)
ArithVariablePrograms ==
    {ArithVariableProgram(a, op, b) : a \in NumLits, b \in NumLits, op \in ArithOps}

\* Test 2 of the repository's test program.
ArithmeticTest ==
    Stmts(<<VariableDeclaration("a", IntLit(20)), VariableDeclaration("b", IntLit(4)),
            PrintStatement(BinaryExpression(Var("a"), "PLUS", Var("b"))),
            PrintStatement(BinaryExpression(Var("a"), "MINUS", Var("b"))),
            PrintStatement(BinaryExpression(Var("a"), "STAR", Var("b"))),
            PrintStatement(BinaryExpression(Var("a"), "SLASH", Var("b")))>>)

\* Test 6 of the repository's test program, and print(x = 7) with a later read.
AssignmentTest ==
    Stmts(<<VariableDeclaration("x", IntLit(5)), VariableDeclaration("y", IntLit(7)),
            PrintStatement(AssignmentExpression("x", Var("y"))),
            PrintStatement(Var("x"))>>)

\* var x = 5; print(L op R); print(x);  with && and ||.
LogicLefts ==
    {True, False, IntLit(0), IntLit(4), Var("x"), AssignmentExpression("x", IntLit(0)),
     BinaryExpression(False, "AND", AssignmentExpression("x", IntLit(9))),
     BinaryExpression(True, "OR", AssignmentExpression("x", IntLit(9)))}
LogicRights ==
    {AssignmentExpression("x", IntLit(7)), True, False, Var("x"),
     BinaryExpression(True, "AND", AssignmentExpression("x", IntLit(7)))}
\* Test 3: var p = true; var q = false; print(p && q); print(p || q);
\* print(!p); print(!q);
LogicalTest ==
    Stmts(<<VariableDeclaration("p", True), VariableDeclaration("q", False),
            PrintStatement(BinaryExpression(Var("p"), "AND", Var("q"))),
            PrintStatement(BinaryExpression(Var("p"), "OR", Var("q"))),
            PrintStatement(UnaryExpression("BANG", Var("p"))),
            PrintStatement(UnaryExpression("BANG", Var("q")))>>)

LogicPrograms ==
    {Stmts(<<VariableDeclaration("x", IntLit(5)),
             PrintStatement(BinaryExpression(l, op, r)),
             PrintStatement(Var("x"))>>) :
        l \in LogicLefts, r \in LogicRights, op \in {"AND", "OR"}}

\* [var x = o;] { var x [= i]; [x = a;] print(x); } use-of-x;  the inner
\* block either a bare block or the then-branch of an if.
ScopeLits == {IntLit(4), StrLit("s")}
ScopeInner(i, a) ==
    Stmts(<<VariableDeclaration("x", i)>>
          \o (IF a.kind = "Null" THEN <<>> ELSE <<AssignmentExpression("x", a)>>)
          \o <<PrintStatement(Var("x"))>>)
ScopeUses ==
    {PrintStatement(Var("x"))}
    \cup {AssignmentExpression("x", u) : u \in ScopeLits}
ScopeProgram(o, i, a, use, bare) ==
    Stmts(<<PrintStatement(StrLit("scope"))>>
          \o (IF o.kind = "Null" THEN <<>> ELSE <<VariableDeclaration("x", o)>>)
          \o <<IF bare THEN ScopeInner(i, a) ELSE IfStatement(True, ScopeInner(i, a), Null)>>
          \o <<use>>)
ScopePrograms ==
    {ScopeProgram(o, i, a, use, bare) :
        o \in ScopeLits \cup {Null}, i \in ScopeLits \cup {Null},
        a \in ScopeLits \cup {Null}, use \in ScopeUses, bare \in BOOLEAN}

\* print("assign"); var x [= i]; var y [= j]; print(x = E); print(x);
AssignInits == {Null, IntLit(4), FloatLit(5, 2), StrLit("s"), True}
AssignOthers == {Null, IntLit(7), StrLit("t")}
AssignValues ==
    {IntLit(7), FloatLit(1, 2), StrLit("u"), False, Var("y"),
     UnaryExpression("MINUS", IntLit(7)), UnaryExpression("MINUS", Var("y")),
     BinaryExpression(Var("y"), "PLUS", IntLit(1)),
     BinaryExpression(Var("y"), "PLUS", Var("y")),
     AssignmentExpression("y", IntLit(7))}
AssignProgram(i, j, e) ==
    Stmts(<<PrintStatement(StrLit("assign")), VariableDeclaration("x", i),
            VariableDeclaration("y", j), PrintStatement(AssignmentExpression("x", e)),
            PrintStatement(Var("x"))>>)
AssignPrograms ==
    {AssignProgram(i, j, e) :
        i \in AssignInits, j \in AssignOthers, e \in AssignValues}

\* print("infer"); var x; var y [= j]; print(x = E1); print(x = E2); print(x);
InferValues == {IntLit(7), FloatLit(1, 2), StrLit("u"), Var("y")}
InferProgram(j, e1, e2) ==
    Stmts(<<PrintStatement(StrLit("infer")), VariableDeclaration("x", Null),
            VariableDeclaration("y", j), PrintStatement(AssignmentExpression("x", e1)),
            PrintStatement(AssignmentExpression("x", e2)), PrintStatement(Var("x"))>>)
InferPrograms ==
    {InferProgram(j, e1, e2) : j \in AssignOthers, e1 \in InferValues, e2 \in InferValues}

\* var x = a; var y = b; if (C) T [else E]; print("end");
IfOperands == {<<10, 5>>, <<5, 10>>, <<5, 5>>}
IfConditions ==
    {BinaryExpression(Var("x"), "GREATER", Var("y")),
     BinaryExpression(Var("x"), "EQUAL_EQUAL", Var("y")),
     True, False, AssignmentExpression("x", IntLit(0)), Var("y")}
IfThens ==
    {Stmts(<<PrintStatement(StrLit("A"))>>), Stmts(<<>>),
     Stmts(<<VariableDeclaration("x", IntLit(1)), PrintStatement(Var("x"))>>)}
IfElses ==
    {Null, Stmts(<<PrintStatement(StrLit("B"))>>), Stmts(<<>>),
     IfStatement(BinaryExpression(Var("x"), "EQUAL_EQUAL", Var("y")),
                 Stmts(<<PrintStatement(StrLit("C"))>>),
                 Stmts(<<PrintStatement(StrLit("D"))>>))}
IfProgram(ab, c, t, e) ==
    Stmts(<<VariableDeclaration("x", IntLit(ab[1])), VariableDeclaration("y", IntLit(ab[2])),
            IfStatement(c, t, e), PrintStatement(StrLit("end"))>>)
IfPrograms ==
    {IfProgram(ab, c, t, e) :
        ab \in IfOperands, c \in IfConditions, t \in IfThens, e \in IfElses}

\* Test 1 of the repository's test program.
IfElseTest ==
    Stmts(<<VariableDeclaration("x", IntLit(10)), VariableDeclaration("y", IntLit(5)),
            PrintStatement(StrLit("--- Test 1: If-else statement ---")),
            IfStatement(BinaryExpression(Var("x"), "GREATER", Var("y")),
                Stmts(<<PrintStatement(StrLit("x is greater than y"))>>),
                IfStatement(BinaryExpression(Var("x"), "EQUAL_EQUAL", Var("y")),
                    Stmts(<<PrintStatement(StrLit("x is equal to y"))>>),
                    Stmts(<<PrintStatement(StrLit("x is less than y"))>>)))>>)

\* Semantic violations, each placed at several depths of a program that
\* has emitted instructions before it and has statements after it.
BadExpressions ==
    {Var("u"), AssignmentExpression("u", IntLit(1)),
     BinaryExpression(StrLit("s"), "PLUS", IntLit(1)),
     BinaryExpression(IntLit(1), "BANG", IntLit(1)),
     UnaryExpression("PLUS", IntLit(1)),
     AssignmentExpression("x", StrLit("s")),
     BinaryExpression(True, "MINUS", IntLit(1)),
     BinaryExpression(StrLit("s"), "AND", True)}
BadStatements ==
    BadExpressions
    \cup {VariableDeclaration("x", IntLit(1)), ForeignNode,
          VariableDeclaration("y", Var("u"))}
\* The statements an expression e can sit in.
ExpressionContexts(e) ==
    {PrintStatement(e), UnaryExpression("MINUS", e), AssignmentExpression("x", e),
     BinaryExpression(True, "AND", e), BinaryExpression(e, "OR", False),
     VariableDeclaration("y", e), IfStatement(e, Stmts(<<>>), Null)}
\* The programs a statement s can sit in; x is declared in the same scope.
StatementContexts(s) ==
    {s,
     Stmts(<<VariableDeclaration("x", IntLit(4)), PrintStatement(Var("x")), s,
             PrintStatement(Var("x"))>>),
     Stmts(<<VariableDeclaration("x", IntLit(4)), Stmts(<<PrintStatement(Var("x")), s>>),
             PrintStatement(Var("x"))>>),
     Stmts(<<VariableDeclaration("x", IntLit(4)),
             IfStatement(True, Stmts(<<s, PrintStatement(Var("x"))>>), Null),
             PrintStatement(Var("x"))>>),
     Stmts(<<VariableDeclaration("x", IntLit(4)),
             IfStatement(False, Stmts(<<>>),
                         Stmts(<<Stmts(<<PrintStatement(Var("x")), s>>)>>)),
             PrintStatement(Var("x"))>>)}
ErrorPrograms ==
    UNION {StatementContexts(s) : s \in BadStatements}
    \cup UNION {StatementContexts(c) :
                  c \in UNION {ExpressionContexts(e) : e \in BadExpressions}}

\* Programs whose leading statements emit no instruction.
DeclarationPrograms ==
    {Null, VariableDeclaration("x", Null), Stmts(<<>>),
     Stmts(<<VariableDeclaration("x", Null)>>),
     Stmts(<<VariableDeclaration("x", Null), PrintStatement(IntLit(1))>>),
     Stmts(<<VariableDeclaration("x", Null), AssignmentExpression("x", IntLit(7)),
             PrintStatement(Var("x"))>>),
     Stmts(<<Stmts(<<>>), PrintStatement(IntLit(1))>>),
     Stmts(<<VariableDeclaration("x", Null), Var("u")>>),
     Stmts(<<PrintStatement(IntLit(1)), VariableDeclaration("x", Null)>>),
     PrintStatement(AssignmentExpression("x", IntLit(7)))}

\* Declarations whose initializer is a unary or assignment expression.
InitializerPrograms ==
    {Stmts(<<VariableDeclaration("x", IntLit(4)), VariableDeclaration("y", e),
             PrintStatement(Var("y"))>>) :
        e \in {UnaryExpression("MINUS", Var("x")), UnaryExpression("MINUS", IntLit(4)),
               UnaryExpression("BANG", True),
               AssignmentExpression("x", Var("x")), AssignmentExpression("x", IntLit(7)),
               BinaryExpression(Var("x"), "PLUS", Var("x")),
               BinaryExpression(Var("x"), "PLUS", IntLit(1))}}

\* var x = "Hello, "; var y = "World!"; var z = x + y; print(z);
StringSumProgram ==
    Stmts(<<VariableDeclaration("x", StrLit("Hello, ")),
            VariableDeclaration("y", StrLit("World!")),
            VariableDeclaration("z", BinaryExpression(Var("x"), "PLUS", Var("y"))),
            PrintStatement(Var("z"))>>)

\* print(E); on a literal.
PrintLiterals ==
    {IntLit(0), IntLit(1), IntLit(4), FloatLit(5, 2), StrLit("s"), StrLit(""), True, False}
PrintPrograms == {Stmts(<<PrintStatement(e)>>) : e \in PrintLiterals}

\* print("typing"); var i = 4; var f = 2.5; var s = "s"; var b = true; var u;
\* print(L op R);
BinaryOps == {"PLUS", "MINUS", "STAR", "SLASH", "AND", "OR"} \cup ComparisonOps
TypedOperands ==
    {Var("i"), Var("f"), Var("s"), Var("b"), Var("u"), IntLit(4), StrLit("t")}
TypingProgram(l, op, r) ==
    Stmts(<<PrintStatement(StrLit("typing")), VariableDeclaration("i", IntLit(4)),
            VariableDeclaration("f", FloatLit(5, 2)), VariableDeclaration("s", StrLit("s")),
            VariableDeclaration("b", True), VariableDeclaration("u", Null),
            PrintStatement(BinaryExpression(l, op, r))>>)
TypingPrograms ==
    {TypingProgram(l, op, r) : l \in TypedOperands, r \in TypedOperands, op \in BinaryOps}

\* The ASTs of repeated compile calls on one Compiler.
ReusePrograms ==
    {Stmts(<<VariableDeclaration("x", IntLit(4)), PrintStatement(Var("x"))>>),
     Stmts(<<VariableDeclaration("x", IntLit(4)),
             Stmts(<<VariableDeclaration("y", StrLit("s")), PrintStatement(Var("u"))>>)>>),
     PrintStatement(Var("x")),
     PrintStatement(Var("y")),
     VariableDeclaration("x", Null),
     Stmts(<<PrintStatement(StrLit("r")), VariableDeclaration("y", IntLit(1)),
             VariableDeclaration("y", IntLit(2))>>)}

\* print("read"); var y = 1; var x [= i]; if (y == c) { x = 3; } print(x);
ReadProgram(i, c) ==
    Stmts(<<PrintStatement(StrLit("read")), VariableDeclaration("y", IntLit(1)),
            VariableDeclaration("x", i),
            IfStatement(BinaryExpression(Var("y"), "EQUAL_EQUAL", IntLit(c)),
                        Stmts(<<AssignmentExpression("x", IntLit(3))>>), Null),
            PrintStatement(Var("x"))>>)
ReadPrograms == {ReadProgram(i, c) : i \in {Null, IntLit(4)}, c \in {1, 2}}

\* print("a"); print(-"b");  print("a"); print(!"b");  print(-"s");
UnaryStringPrograms ==
    {Stmts(<<PrintStatement(StrLit("a")), PrintStatement(UnaryExpression(op, StrLit("b")))>>) :
        op \in {"MINUS", "BANG"}}
    \cup {Stmts(<<PrintStatement(UnaryExpression("MINUS", StrLit("s")))>>)}

\* print("order"); [var x = o;] if (true) { var x = E; print(x); }  with E
\* naming x.
OrderOuters == {Null, IntLit(4), StrLit("s")}
OrderInitializers ==
    {Var("x"), BinaryExpression(Var("x"), "PLUS", IntLit(1)),
     BinaryExpression(Var("x"), "PLUS", Var("x")), AssignmentExpression("x", IntLit(7))}
OrderProgram(o, e) ==
    Stmts(<<PrintStatement(StrLit("order"))>>
          \o (IF o.kind = "Null" THEN <<>> ELSE <<VariableDeclaration("x", o)>>)
          \o <<IfStatement(True, Stmts(<<VariableDeclaration("x", e),
                                         PrintStatement(Var("x"))>>), Null)>>)
OrderPrograms == {OrderProgram(o, e) : o \in OrderOuters, e \in OrderInitializers}

Programs ==
    ArithLiteralPrograms \cup ArithVariablePrograms \cup {ArithmeticTest, AssignmentTest}
    \cup LogicPrograms \cup ScopePrograms \cup AssignPrograms \cup IfPrograms \cup {IfElseTest}
    \cup ErrorPrograms \cup DeclarationPrograms \cup InitializerPrograms \cup ReusePrograms
    \cup InferPrograms \cup {StringSumProgram} \cup PrintPrograms \cup {LogicalTest}
    \cup TypingPrograms \cup ReadPrograms \cup UnaryStringPrograms \cup OrderPrograms

----------------------------------------------------------------------------
(* The state machine: one Compiler and one VM driven as main.cpp drives    *)
(* them (compile, then run, instruction by instruction), and a stand-alone *)
(* SymbolTable driven through its public methods.                          *)

\* Programs handed to VM::run directly, each with its string pool.
VMProgram(code, pool) == [code |-> code, pool |-> pool]

Greeting == <<"Hello, ", "World!">>
Letters == <<"a", "b">>

ConcatCode ==
    <<Ins("PUSH_STRING", 0), Ins("PUSH_STRING", 1), Ins("CONCAT_STRING", 0),
      Ins("PRINT_STRING", 0), Ins("HALT", 0)>>
ConcatTwiceCode ==
    <<Ins("PUSH_STRING", 1), Ins("PUSH_STRING", 0), Ins("CONCAT_STRING", 0),
      Ins("PUSH_STRING", 0), Ins("CONCAT_STRING", 0), Ins("PRINT_STRING", 0), Ins("HALT", 0)>>
ConcatInvalidCode ==
    <<Ins("PUSH_STRING", 1), Ins("PRINT_STRING", 0), Ins("PUSH_STRING", 0),
      Ins("PUSH_STRING", 2), Ins("CONCAT_STRING", 0), Ins("PRINT_STRING", 0), Ins("HALT", 0)>>
PrintThirdCode == <<Ins("PUSH_STRING", 2), Ins("PRINT_STRING", 0), Ins("HALT", 0)>>
StoreCode ==
    <<Ins("PUSH_INT", 7), Ins("PUSH_INT", 0), Ins("STORE", 0), Ins("PRINT_VALUE", 0),
      Ins("HALT", 0)>>
LoadCode == <<Ins("PUSH_INT", 0), Ins("LOAD", 0), Ins("PRINT_VALUE", 0), Ins("HALT", 0)>>
NoHaltCode == <<Ins("PUSH_INT", 4), Ins("PRINT_VALUE", 0)>>
JumpOutCode(target) == <<Ins("PUSH_INT", 4), Ins("JUMP", target), Ins("HALT", 0)>>
JumpIfOutCode ==
    <<Ins("PUSH_INT", 0), Ins("JUMP_IF_FALSE", 7), Ins("PUSH_INT", 4), Ins("HALT", 0)>>
HaltValueCode == <<Ins("PUSH_INT", 4), Bytecode("PUSH_FLOAT", Rat(5, 2)), Ins("HALT", 0)>>
HaltEarlyCode ==
    <<Ins("PUSH_INT", 3), Ins("PRINT_VALUE", 0), Ins("HALT", 0), Ins("PUSH_INT", 4),
      Ins("PRINT_VALUE", 0), Ins("HALT", 0)>>
PrintFirstCode == <<Ins("PRINT_VALUE", 0), Ins("HALT", 0)>>
\* print 2; the faulting instructions; print 4.
FaultCode(faulting) ==
    <<Ins("PUSH_INT", 2), Ins("PRINT_VALUE", 0)>> \o faulting
    \o <<Ins("PUSH_INT", 4), Ins("PRINT_VALUE", 0), Ins("HALT", 0)>>
Faulting ==
    {<<Ins("ADD", 0)>>,
     <<Ins("PUSH_INT", 4), Ins("PUSH_INT", 0), Ins("DIV", 0)>>,
     <<Ins("PUSH_INT", 4), Ins("PUSH_INT", -1), Ins("STORE", 0)>>,
     <<Ins("PUSH_INT", 5), Ins("LOAD", 0)>>,
     <<Ins("PUSH_INT", 1), Ins("PUSH_INT", 1), Ins("AND", 0)>>,
     <<Ins("PUSH_INT", 1), Ins("PUSH_INT", 0), Ins("OR", 0)>>,
     <<Ins("BOGUS", 0)>>,
     <<Ins("PUSH_STRING", 0), Ins("PRINT_STRING", 0)>>}

\* What main.cpp hands to VM::run for the AST a: the Program and the pool of
\* a fresh Compiler.
Compiled(a) ==
    LET s == compile(NewCompiler, a, Crash)
    IN  VMProgram(IF s.crashed THEN <<>> ELSE s.bytecode, s.string_literals)

\* Test 4 of the repository's test program, and the same sum on literals.
ConcatVariableTest ==
    Stmts(<<VariableDeclaration("str1", StrLit("Hello, ")),
            VariableDeclaration("str2", StrLit("World!")),
            PrintStatement(BinaryExpression(Var("str1"), "PLUS", Var("str2")))>>)
ConcatLiteralTest ==
    PrintStatement(BinaryExpression(StrLit("Hello, "), "PLUS", StrLit("World!")))

\* var x = -1;
MinusOneTest == Stmts(<<VariableDeclaration("x", UnaryExpression("MINUS", IntLit(1)))>>)

CompiledPrograms == {Compiled(ConcatVariableTest), Compiled(ConcatLiteralTest)}

VMPrograms ==
    CompiledPrograms \cup {Compiled(LogicalTest), Compiled(MinusOneTest)} \cup
    {VMProgram(ConcatCode, Greeting), VMProgram(ConcatTwiceCode, Letters),
     VMProgram(ConcatInvalidCode, Letters), VMProgram(PrintThirdCode, Letters),
     VMProgram(StoreCode, <<>>), VMProgram(LoadCode, <<>>), VMProgram(NoHaltCode, <<>>),
     VMProgram(<<>>, <<>>), VMProgram(JumpOutCode(9), <<>>), VMProgram(JumpOutCode(-1), <<>>),
     VMProgram(JumpIfOutCode, <<>>), VMProgram(HaltValueCode, <<>>),
     VMProgram(HaltEarlyCode, <<>>), VMProgram(PrintFirstCode, <<>>)}
    \cup {VMProgram(FaultCode(f), <<>>) : f \in Faulting}

TableNames == {"x", "y"}
TableTypes == {"INTEGER", "STRING_LITERAL", "UNKNOWN"}

NoHistory ==
    [failed |-> FALSE, lateEmit |-> FALSE, discarded |-> 0, created |-> <<>>,
     spans |-> <<>>, assigns |-> <<>>, allCreated |-> <<>>, scopesBefore |-> <<>>]

\* The values an instruction needs on the stack (the underflow tests of the
\* switch of VM::run).
Pops(i) ==
    CASE i \in {"ADD", "SUB", "MUL", "DIV", "STORE", "CONCAT_STRING"} \cup ComparisonOps -> 2
      [] i \in {"NEGATE", "POP", "LOAD", "NOT", "JUMP_IF_FALSE", "JUMP_IF_TRUE",
                "PRINT_VALUE", "PRINT_STRING"} -> 1
      [] OTHER -> 0

\* The values an instruction leaves behind.
Pushes(i) ==
    CASE i \in {"PUSH_INT", "PUSH_FLOAT", "PUSH_STRING", "ADD", "SUB", "MUL", "DIV",
                "NEGATE", "STORE", "LOAD", "NOT", "CONCAT_STRING"} \cup ComparisonOps -> 1
      [] OTHER -> 0

NetEffect(i) == Pushes(i) - Pops(i)

\* Where a value on the stack or in memory came from: "string" from
\* PUSH_STRING or CONCAT_STRING (directly or through a variable), "number"
\* from any other instruction, "none" for a cell no STORE has written.
NoOrigin == [stack |-> <<>>, memory |-> <<>>]

TagAt(tags, k) == IF k >= 1 /\ k <= Len(tags) THEN tags[k] ELSE "none"
DropTags(tags, k) == SubSeq(tags, 1, IF Len(tags) > k THEN Len(tags) - k ELSE 0)

\* The origins of the values instruction i pops.
Consumed(tags, i) == {TagAt(tags, Len(tags) - j) : j \in 0..(Pops(i) - 1)}

NumericConsumers == {"ADD", "SUB", "MUL", "DIV", "NEGATE", "PRINT_VALUE"} \cup ComparisonOps
StringConsumers == {"CONCAT_STRING", "PRINT_STRING"}

\* The origins after the VM in state v has executed instruction.
TagStep(origin, v, instruction) ==
    LET i == instruction.instruction
        tags == origin.stack
        address == toInt(Top(v.stack))
        stored == TagAt(tags, Len(tags) - 1)
        size == IF address + 1 > Len(origin.memory) THEN address + 1 ELSE Len(origin.memory)
    IN  IF Len(v.stack) < Pops(i) THEN origin
        ELSE CASE i = "PUSH_STRING" -> [origin EXCEPT !.stack = Append(tags, "string")]
               [] i \in {"PUSH_INT", "PUSH_FLOAT"} ->
                     [origin EXCEPT !.stack = Append(tags, "number")]
               [] i = "CONCAT_STRING" ->
                     [origin EXCEPT !.stack = Append(DropTags(tags, 2), "string")]
               [] i \in {"ADD", "SUB", "MUL", "DIV"} \cup ComparisonOps ->
                     [origin EXCEPT !.stack = Append(DropTags(tags, 2), "number")]
               [] i \in {"NEGATE", "NOT"} ->
                     [origin EXCEPT !.stack = Append(DropTags(tags, 1), "number")]
               [] i = "STORE" ->
                     IF address < 0 THEN origin
                     ELSE [stack |-> Append(DropTags(tags, 2), stored),
                           memory |-> [k \in 1..size |->
                                         IF k = address + 1 THEN stored
                                         ELSE TagAt(origin.memory, k)]]
               [] i = "LOAD" ->
                     [origin EXCEPT
                        !.stack = Append(DropTags(tags, 1), TagAt(origin.memory, address + 1))]
               [] i \in {"POP", "JUMP_IF_FALSE", "JUMP_IF_TRUE", "PRINT_VALUE",
                         "PRINT_STRING"} ->
                     [origin EXCEPT !.stack = DropTags(tags, 1)]
               [] OTHER -> origin

\* The instruction about to be executed takes a string for a number or a
\* number for a string.
Confusions(origin, v, instruction) ==
    LET i == instruction.instruction IN
    IF /\ Len(v.stack) >= Pops(i)
       /\ \/ i \in NumericConsumers /\ "string" \in Consumed(origin.stack, i)
          \/ i \in StringConsumers /\ Consumed(origin.stack, i) # {"string"}
    THEN {<<v.pc, i>>}
    ELSE {}

\* History of the runs of the VM: the arguments of the current call of run,
\* the program counters executed in it, the conditional jumps with the
\* condition they found, the stack depth each instruction was met at, and
\* the outcome of every finished call.
NoTrace ==
    [runs |-> 0, executed |-> {}, taken |-> {}, depths |-> {}, origin |-> NoOrigin,
     confused |-> {}, loaded |-> VMProgram(<<>>, <<>>), log |-> {}]

Outcome(loaded, v, out) ==
    [code |-> loaded.code, pool |-> loaded.pool, status |-> v.status, result |-> v.result,
     output |-> out]

Init ==
    /\ compiler = NewCompiler
    /\ ast = Null
    /\ program = <<>>
    /\ compiled = "none"
    /\ diag = <<>>
    /\ hist = NoHistory
    /\ ncompiles = 0
    /\ vm = NewVM
    /\ output = <<>>
    /\ trace = NoTrace
    /\ table = NewSymbolTable
    /\ tableHist = [ops |-> 0, created |-> <<>>, last |-> "none", ok |-> TRUE,
                    name |-> "", type |-> ""]

\* compiler.compile(a), followed by the construction of the VM that will run
\* the result.  A first call takes any program; further calls on the same
\* Compiler are made within ReusePrograms.
Compile(a, ub) ==
    /\ tableHist.ops = 0
    /\ compiled # "crashed"
    /\ vm.status # "running"
    /\ ncompiles < MaxCompiles
    /\ \/ ncompiles = 0 /\ a \in Programs
       \/ ncompiles > 0 /\ a \in ReusePrograms /\ ast \in ReusePrograms
    /\ LET s == compile(compiler, a, ub) IN
       /\ compiler' = [bytecode |-> s.bytecode, symbolTable |-> s.symbolTable,
                       string_literals |-> s.string_literals]
       /\ program' = IF s.crashed THEN <<>> ELSE s.bytecode
       /\ compiled' = IF s.crashed THEN "crashed" ELSE "returned"
       /\ diag' = s.diag
       /\ hist' = [failed |-> s.failed, lateEmit |-> s.lateEmit,
                   discarded |-> s.discarded, created |-> s.created,
                   spans |-> s.spans, assigns |-> s.assigns, allCreated |-> hist.allCreated \o s.created,
                   scopesBefore |-> compiler.symbolTable.scopes]
    /\ ast' = a
    /\ ncompiles' = ncompiles + 1
    /\ vm' = NewVM
    /\ output' = <<>>
    /\ trace' = [trace EXCEPT !.executed = {}, !.taken = {}, !.depths = {}, !.log = {},
                              !.origin = NoOrigin, !.confused = {}]
    /\ UNCHANGED <<table, tableHist>>

\* vm.run(program, compiler.getStringLiterals()), up to the loop.
Run ==
    /\ compiled = "returned"
    /\ vm.status # "running"
    /\ trace.runs < MaxRuns
    /\ vm' = vmRunEntry(vm, program, compiler.string_literals)
    /\ output' = <<>>
    /\ trace' = [trace EXCEPT !.runs = @ + 1, !.executed = {}, !.taken = {}, !.depths = {},
                              !.origin = NoOrigin, !.confused = {},
                              !.loaded = VMProgram(program, compiler.string_literals)]
    /\ UNCHANGED <<compiler, ast, program, compiled, diag, hist, ncompiles, table, tableHist>>

\* vm.run(p.code, p.pool) on a program that no Compiler produced.
RunDirect(p) ==
    /\ vm.status # "running"
    /\ trace.runs < MaxRuns
    /\ vm' = vmRunEntry(vm, p.code, p.pool)
    /\ output' = <<>>
    /\ trace' = [trace EXCEPT !.runs = @ + 1, !.executed = {}, !.taken = {}, !.depths = {},
                              !.origin = NoOrigin, !.confused = {},
                              !.loaded = p]
    /\ UNCHANGED <<compiler, ast, program, compiled, diag, hist, ncompiles, table, tableHist>>

\* One iteration of the loop of run (or its fall-through).
Step ==
    /\ vm.status = "running"
    /\ vm' = vmStep(vm)
    /\ output' = IF vmInLoop(vm) THEN output \o vmPrinted(vm, vm.bytecode[vm.pc + 1])
                 ELSE output
    /\ trace' = [trace EXCEPT
                   !.executed = IF vmInLoop(vm) THEN @ \cup {vm.pc} ELSE @,
                   !.depths = IF vmInLoop(vm) THEN @ \cup {<<vm.pc, Len(vm.stack)>>} ELSE @,
                   !.origin = IF vmInLoop(vm) THEN TagStep(@, vm, vm.bytecode[vm.pc + 1])
                              ELSE @,
                   !.confused = IF vmInLoop(vm)
                                THEN @ \cup Confusions(trace.origin, vm, vm.bytecode[vm.pc + 1])
                                ELSE @,
                   !.taken = IF /\ vmInLoop(vm)
                                /\ vm.bytecode[vm.pc + 1].instruction
                                      \in {"JUMP_IF_FALSE", "JUMP_IF_TRUE"}
                                /\ vm.stack # <<>>
                             THEN @ \cup {<<vm.pc, dblIsZero(Top(vm.stack))>>}
                             ELSE @,
                   !.log = IF vm'.status = "running" THEN @
                           ELSE @ \cup {Outcome(trace.loaded, vm', output')}]
    /\ UNCHANGED <<compiler, ast, program, compiled, diag, hist, ncompiles, table, tableHist>>

\* The stand-alone SymbolTable: enterScope(), exitScope(), addSymbol(name, type).
TableCall ==
    /\ ncompiles = 0
    /\ tableHist.ops < MaxTableOps
    /\ UNCHANGED <<compiler, ast, program, compiled, diag, hist, ncompiles, vm, output, trace>>

TableEnterScope ==
    /\ TableCall
    /\ table' = enterScope(table)
    /\ tableHist' = [tableHist EXCEPT !.ops = @ + 1, !.last = "enterScope", !.ok = TRUE,
                                      !.name = "", !.type = ""]

TableExitScope ==
    /\ TableCall
    /\ table' = exitScope(table)
    /\ tableHist' = [tableHist EXCEPT !.ops = @ + 1, !.last = "exitScope",
                                      !.ok = exitScopeWarning(table) = <<>>,
                                      !.name = "", !.type = ""]

TableAddSymbol(name, type) ==
    /\ TableCall
    /\ table' = addSymbol(table, name, type)
    /\ tableHist' = [tableHist EXCEPT
                       !.ops = @ + 1, !.last = "addSymbol",
                       !.ok = addSymbolOk(table, name),
                       !.name = name, !.type = type,
                       !.created = IF addSymbolOk(table, name)
                                   THEN Append(@, Symbol(name, type, table.next_address))
                                   ELSE @]

Next ==
    \/ \E a \in Programs, ub \in UBOutcomes : Compile(a, ub)
    \/ Run
    \/ Step
    \/ TableEnterScope
    \/ TableExitScope
    \/ \E name \in TableNames, type \in TableTypes : TableAddSymbol(name, type)

Spec == Init /\ [][Next]_vars

\* A VM alone, running programs handed to it directly.
NextVM ==
    \/ \E p \in VMPrograms : RunDirect(p)
    \/ Step

SpecVM == Init /\ [][NextVM]_vars

\* The call of run has returned.
Finished == vm.status \in {"halted", "error"}

----------------------------------------------------------------------------
(* Abandon-on-first-error and the meaning of an empty Program.             *)

\* The identifiers a node names, read or written.
RECURSIVE Mentions(_, _)
Mentions(node, name) ==
    CASE node.kind = "IdentifierExpression" -> node.name = name
      [] node.kind = "AssignmentExpression" ->
            node.name = name \/ Mentions(node.value, name)
      [] node.kind = "BinaryExpression" ->
            Mentions(node.left, name) \/ Mentions(node.right, name)
      [] node.kind = "UnaryExpression" -> Mentions(node.right, name)
      [] node.kind = "VariableDeclaration" -> Mentions(node.initializer, name)
      [] node.kind = "IfStatement" ->
            \/ Mentions(node.condition, name)
            \/ Mentions(node.thenBranch, name)
            \/ Mentions(node.elseBranch, name)
      [] node.kind = "BlockStatement" ->
            \E i \in 1..Len(node.statements) : Mentions(node.statements[i], name)
      [] node.kind = "PrintStatement" -> Mentions(node.expression, name)
      [] OTHER -> FALSE

HaltIsLastOnly(code) ==
    /\ code # <<>>
    /\ code[Len(code)].instruction = "HALT"
    /\ \A i \in 1..(Len(code) - 1) : code[i].instruction # "HALT"

\* C1: when lowering reaches an error site (undeclared identifier read or
\* assignment target, redeclaration in the same scope, assignment type
\* mismatch, invalid operand type, unknown operator or node kind), at any
\* nesting depth, compile returns an empty Program: the instructions emitted
\* before the error are discarded and none is emitted after it.
C1_AbandonOnFirstError ==
    (compiled = "returned" /\ hist.failed)
        => /\ program = <<>>
           /\ compiler.bytecode = <<>>
           /\ ~hist.lateEmit

\* C1 is exercised: an error met inside a nested block after instructions
\* had been emitted, and the call returned the empty Program.
C1_Witness ==
    /\ compiled = "returned"
    /\ hist.failed
    /\ hist.discarded > 2
    /\ ast \in ErrorPrograms
    /\ ast.kind = "BlockStatement"
    /\ Len(ast.statements) = 3
    /\ Mentions(ast.statements[2], "u")
    /\ program = <<>>

\* ASTs without any semantic violation.
ValidPrograms ==
    {Stmts(<<VariableDeclaration("x", Null), PrintStatement(IntLit(1))>>),
     Stmts(<<VariableDeclaration("x", Null), AssignmentExpression("x", IntLit(7)),
             PrintStatement(Var("x"))>>),
     Stmts(<<PrintStatement(IntLit(1)), VariableDeclaration("x", Null)>>),
     ArithmeticTest, AssignmentTest, IfElseTest}

\* C2: for every AST without a semantic violation, also one whose leading
\* statements emit no instruction, compile returns a non-empty Program
\* whose last instruction, and no earlier one, is HALT.
C2_EmptyMeansFailed ==
    (compiled = "returned" /\ ast \in ValidPrograms) => HaltIsLastOnly(program)

----------------------------------------------------------------------------
(* Short-circuit evaluation.                                               *)

\* The instruction indices lowered from the right operand of a && or ||.
RightOperand(sp) == sp.aFrom .. sp.aTo

\* The conditional jump of sp has run and found the left operand deciding
\* the result: 0 for &&, non-zero for ||.
LeftDecides(sp) == <<sp.jump, sp.kind = "AND">> \in trace.taken

ShortCircuitProgram(l, op, r) ==
    Stmts(<<VariableDeclaration("x", IntLit(5)), PrintStatement(BinaryExpression(l, op, r)),
            PrintStatement(Var("x"))>>)

\* C3: when the code of L && R runs and L evaluates to 0, or the code of
\* L || R runs and L evaluates to a non-zero value, no instruction lowered
\* from R is executed; an assignment inside R leaves memory unchanged.
C3_ShortCircuit ==
    /\ \A i \in 1..Len(hist.spans) :
          LET sp == hist.spans[i] IN
          (sp.kind \in {"AND", "OR"} /\ LeftDecides(sp))
              => trace.executed \cap RightOperand(sp) = {}
    /\ \A r \in LogicRights :
          /\ (vm.status = "halted" /\ ast = ShortCircuitProgram(False, "AND", r))
                => output = <<"false", "5">>
          /\ (vm.status = "halted" /\ ast = ShortCircuitProgram(IntLit(4), "OR", r))
                => output = <<"true", "5">>

\* C3 is exercised: a run has finished in which the left operand of a &&
\* was 0 and the right operand holds a STORE.
C3_Witness ==
    /\ vm.status = "halted"
    /\ \E i \in 1..Len(hist.spans) :
          LET sp == hist.spans[i] IN
          /\ sp.kind = "AND"
          /\ LeftDecides(sp)
          /\ \E k \in RightOperand(sp) : program[k + 1].instruction = "STORE"

----------------------------------------------------------------------------
(* Scopes, shadowing and addresses.                                        *)

ScopeChoices == ScopeLits \cup {Null}

\* The line print writes for a literal of ScopeLits.
LitLine(l) == IF l = IntLit(4) THEN "4" ELSE "s"

\* The inner block { var x [= i]; [x = a;] print(x); } has no violation.
InnerValid(i, a) == i = Null \/ a = Null \/ i = a

UndeclaredMessage(use) ==
    IF use.kind = "PrintStatement" THEN "Compiler Error: Undeclared variable"
    ELSE "Compiler Error: Assignment to undeclared variable"

\* C4: a variable declared inside a block (a bare block or the branch of an
\* if) is not resolvable after the block; with no enclosing declaration of
\* the name, reading it or assigning to it after the block makes compile
\* return an empty Program.
C4_BlockScoping ==
    \A i \in ScopeChoices, a \in ScopeChoices, use \in ScopeUses, bare \in BOOLEAN :
        (compiled = "returned" /\ ast = ScopeProgram(Null, i, a, use, bare))
            => /\ program = <<>>
               /\ hist.failed
               /\ lookupScope(compiler.symbolTable, "x") = 0
               /\ InnerValid(i, a)
                    => /\ diag = <<UndeclaredMessage(use)>>
                       /\ Len(hist.created) = 1
                       /\ hist.created[1].name = "x"

\* C4 is exercised: x declared and printed inside a bare block, read after
\* it, and the only error is the undeclared read.
C4_Witness ==
    /\ compiled = "returned"
    /\ ast = ScopeProgram(Null, IntLit(4), Null, PrintStatement(Var("x")), TRUE)
    /\ diag = <<"Compiler Error: Undeclared variable">>
    /\ hist.discarded > 4
    /\ program = <<>>

\* C5: declaring x in an inner scope while an outer scope holds x succeeds
\* with a different address; inside the inner scope x resolves to the inner
\* symbol; after the inner scope x resolves to the outer symbol, whose type,
\* address and memory cell the inner declaration and assignment left alone.
C5_Shadowing ==
    \A o \in ScopeLits, i \in ScopeChoices, a \in ScopeChoices,
       use \in ScopeUses, bare \in BOOLEAN :
        (compiled = "returned" /\ ast = ScopeProgram(o, i, a, use, bare))
            => LET outer == hist.created[1]
                   inner == hist.created[2]
                   reads == use.kind = "PrintStatement"
                   useValid == reads \/ use.value = o
                   innerValue == IF a # Null THEN a ELSE i
                   n == Len(hist.assigns)
               IN  /\ Len(hist.created) = 2
                   /\ outer.name = "x" /\ inner.name = "x"
                   /\ outer.address # inner.address
                   /\ outer.type = getLiteralType(o)
                   /\ (program # <<>>) <=> (InnerValid(i, a) /\ useValid)
                   /\ a # Null => /\ n >= 1
                                  /\ hist.assigns[1].address = inner.address
                   /\ (~reads /\ InnerValid(i, a))
                        => /\ n >= 1
                           /\ hist.assigns[n].address = outer.address
                           /\ hist.assigns[n].recorded = outer.type
                           /\ hist.assigns[n].after = outer.type
                   /\ (vm.status = "halted" /\ innerValue # Null)
                        => output = <<"scope", LitLine(innerValue)>>
                                    \o (IF reads THEN <<LitLine(o)>> ELSE <<>>)

\* C5 is exercised: an integer x shadowed by a string x that is assigned
\* and printed in the block, then the outer x printed, and the run halted.
C5_Witness ==
    /\ vm.status = "halted"
    /\ ast = ScopeProgram(IntLit(4), StrLit("s"), StrLit("s"), PrintStatement(Var("x")), TRUE)
    /\ output = <<"scope", "s", "4">>

\* The addresses of the symbols created, in the order of their creation.
Sequential(created) == \A k \in 1..Len(created) : created[k].address = k - 1

\* C6: the symbols ever created by one SymbolTable, live or discarded, have
\* the addresses 0, 1, 2, ... in the order of creation, across enterScope,
\* exitScope, failed addSymbol calls and repeated compile calls; the counter
\* equals the number of symbols created.
C6_AddressUniqueness ==
    /\ Sequential(tableHist.created)
    /\ table.next_address = Len(tableHist.created)
    /\ \A k \in 1..Len(table.scopes) : \A n \in DOMAIN table.scopes[k] :
          \E c \in 1..Len(tableHist.created) : tableHist.created[c] = table.scopes[k][n]
    /\ Sequential(hist.allCreated)
    /\ compiled # "crashed" => compiler.symbolTable.next_address = Len(hist.allCreated)

\* C6 is exercised: a second compile call on the same Compiler created a
\* symbol after a first call had, and met a failing addSymbol.
C6_Witness ==
    /\ ncompiles = 2
    /\ hist.failed
    /\ Len(hist.created) >= 1
    /\ Len(hist.allCreated) > Len(hist.created)
    /\ diag = <<"Error: Symbol already exists in the current scope.">>

----------------------------------------------------------------------------
(* Assignment.                                                             *)

\* var x = 5; var y = 7; print(x = y); print(x);  with x at 0 and y at 1:
\* each store is the value's code, PUSH_INT address, STORE.
AssignmentTestCode ==
    <<Ins("PUSH_INT", 5), Ins("PUSH_INT", 0), Ins("STORE", 0),
      Ins("PUSH_INT", 7), Ins("PUSH_INT", 1), Ins("STORE", 0),
      Ins("PUSH_INT", 1), Ins("LOAD", 0), Ins("PUSH_INT", 0), Ins("STORE", 0),
      Ins("PRINT_VALUE", 0),
      Ins("PUSH_INT", 0), Ins("LOAD", 0), Ins("PRINT_VALUE", 0), Ins("HALT", 0)>>

\* The VM is about to execute a STORE that will not fail.
AtStore ==
    /\ vm.status = "running"
    /\ vmInLoop(vm)
    /\ vm.bytecode[vm.pc + 1].instruction = "STORE"
    /\ Len(vm.stack) >= 2
    /\ toInt(vm.stack[Len(vm.stack)]) >= 0

\* The effect of that STORE: the cell holds the value, the other cells are
\* as before, the address is gone from the stack and the value is on top.
StoreEffect ==
    LET n == Len(vm.stack)
        address == toInt(vm.stack[n])
        value == vm.stack[n - 1]
    IN  /\ Len(vm'.memory) > address
        /\ vm'.memory[address + 1] = value
        /\ \A c \in 1..Len(vm.memory) : c # address + 1 => vm'.memory[c] = vm.memory[c]
        /\ vm'.stack = SubSeq(vm.stack, 1, n - 2) \o <<value>>
        /\ vm'.status = "running"

AssignmentLowered ==
    /\ \A k \in 1..Len(program) :
          program[k].instruction = "STORE"
              => /\ k >= 3
                 /\ program[k - 1].instruction = "PUSH_INT"
                 /\ \E c \in 1..Len(hist.created) :
                       program[k - 1].operand = Dbl(hist.created[c].address)
    /\ (compiled = "returned" /\ ast = AssignmentTest) => program = AssignmentTestCode

AssignmentPrinted ==
    /\ (vm.status = "halted" /\ ast = AssignmentTest) => output = <<"7", "7">>
    /\ \A i \in {Null, IntLit(4)}, j \in AssignOthers :
          (vm.status = "halted" /\ ast = AssignProgram(i, j, IntLit(7)))
              => output = <<"assign", "7", "7">>

\* C7: the code of x = E and of var x = E is the code of E, PUSH_INT
\* address-of-x, STORE; a STORE leaves the value in memory[address] and on
\* top of the stack, the address removed; print(x = 7) prints 7 and a later
\* print(x) prints 7.
C7_AssignmentIsExpression ==
    /\ [](AssignmentLowered /\ AssignmentPrinted)
    /\ [][AtStore => StoreEffect]_vars

\* C7 is exercised: var x; print(x = 7); print(x); has run to its HALT.
C7_Witness ==
    /\ vm.status = "halted"
    /\ ast = AssignProgram(Null, Null, IntLit(7))
    /\ output = <<"assign", "7", "7">>
    /\ vm.memory[1] = Dbl(7)

\* The target of the checked assignment had an inferred type.
Typed(e) == e.recorded # "UNKNOWN"

\* C8, as stated: with a target of recorded type T other than Unknown,
\* compile succeeds only if the right-hand side resolves to exactly T; any
\* other resolved type, Unknown included, gives the empty Program; T is
\* not changed.
C8_ExactMatchOrFail ==
    compiled = "returned"
        => \A k \in 1..Len(hist.assigns) :
              LET e == hist.assigns[k] IN
              Typed(e) => /\ e.assigned # e.recorded => program = <<>>
                          /\ e.after = e.recorded

\* C8, amended: with a target of recorded type T other than Unknown, a
\* right-hand side that resolves to neither T nor Unknown is rejected and
\* compile returns the empty Program; one that resolves to T or to Unknown
\* passes the type check; T is not changed either way.
C8_MismatchRejected ==
    /\ compiled = "returned"
        => \A k \in 1..Len(hist.assigns) :
              LET e == hist.assigns[k] IN
              Typed(e) => /\ e.assigned \notin {e.recorded, "UNKNOWN"}
                                => (~e.accepted /\ program = <<>>)
                          /\ e.assigned \in {e.recorded, "UNKNOWN"} => e.accepted
                          /\ e.after = e.recorded
    /\ \A j \in AssignOthers :
          (compiled = "returned" /\ ast = AssignProgram(IntLit(4), j, Var("y")))
              => (program = <<>>) <=> (j = StrLit("t"))
    /\ (compiled = "returned" /\ ast = AssignProgram(IntLit(4), Null, StrLit("u")))
          => (program = <<>> /\ diag = <<"Compiler Error: Type mismatch in assignment">>)

\* C8 is exercised: var x = 4; x = "u"; was rejected.
C8_Witness ==
    /\ compiled = "returned"
    /\ ast = AssignProgram(IntLit(4), Null, StrLit("u"))
    /\ Len(hist.assigns) = 1
    /\ hist.assigns[1].recorded = "INTEGER"
    /\ hist.assigns[1].assigned = "STRING_LITERAL"
    /\ ~hist.assigns[1].accepted
    /\ program = <<>>

----------------------------------------------------------------------------
(* Conditional control flow.                                               *)

ThenBranch(sp) == sp.aFrom .. sp.aTo
ElseBranch(sp) == sp.bFrom .. sp.bTo

\* The JUMP_IF_FALSE of sp has run; zero tells whether the condition was 0.
Decided(sp, zero) == <<sp.jump, zero>> \in trace.taken

\* No jump among the instructions of the range.
Straight(range) ==
    \A k \in range : program[k + 1].instruction \notin {"JUMP", "JUMP_IF_FALSE", "JUMP_IF_TRUE"}

\* The branch taken runs (from its first instruction, and all of it when it
\* holds no jump), the other branch does not, and the run goes on at the
\* instruction after the if.
Branches(taken, other, end) ==
    /\ trace.executed \cap other = {}
    /\ vm.status = "halted"
          => /\ \A k \in taken : (k - 1 \notin taken \/ Straight(taken)) => k \in trace.executed
             /\ end \in trace.executed

PrintA == Stmts(<<PrintStatement(StrLit("A"))>>)
PrintB == Stmts(<<PrintStatement(StrLit("B"))>>)
Greater == BinaryExpression(Var("x"), "GREATER", Var("y"))

\* C9: the code of if (C) T else E runs T and nothing of E when C is
\* non-zero, E and nothing of T when C is 0; without else, T runs iff C is
\* non-zero; execution goes on after the whole if.
C9_ConditionalControlFlow ==
    /\ \A i \in 1..Len(hist.spans) :
          LET sp == hist.spans[i] IN
          sp.kind = "IF"
              => /\ Decided(sp, FALSE) => Branches(ThenBranch(sp), ElseBranch(sp), sp.end)
                 /\ Decided(sp, TRUE) => Branches(ElseBranch(sp), ThenBranch(sp), sp.end)
    /\ \A ab \in IfOperands :
          /\ (vm.status = "halted" /\ ast = IfProgram(ab, Greater, PrintA, PrintB))
                => output = IF ab[1] > ab[2] THEN <<"A", "end">> ELSE <<"B", "end">>
          /\ (vm.status = "halted" /\ ast = IfProgram(ab, Greater, PrintA, Null))
                => output = IF ab[1] > ab[2] THEN <<"A", "end">> ELSE <<"end">>
    /\ (vm.status = "halted" /\ ast = IfElseTest)
          => output = <<"--- Test 1: If-else statement ---", "x is greater than y">>

\* C9 is exercised: with x = 5 and y = 10, if (x > y) print("A"); else
\* print("B"); has run its else branch and reached HALT.
C9_Witness ==
    /\ vm.status = "halted"
    /\ ast = IfProgram(<<5, 10>>, Greater, PrintA, PrintB)
    /\ output = <<"B", "end">>
    /\ \E i \in 1..Len(hist.spans) :
          /\ hist.spans[i].kind = "IF"
          /\ Decided(hist.spans[i], TRUE)
          /\ ElseBranch(hist.spans[i]) \subseteq trace.executed
          /\ ElseBranch(hist.spans[i]) # {}

----------------------------------------------------------------------------
(* Arithmetic.                                                             *)

\* a op b over the rationals, a the left operand; b is not 0 for SLASH.
Exact(a, op, b) ==
    CASE op = "PLUS" -> Rat(a[1] * b[2] + b[1] * a[2], a[2] * b[2])
      [] op = "MINUS" -> Rat(a[1] * b[2] - b[1] * a[2], a[2] * b[2])
      [] op = "STAR" -> Rat(a[1] * b[1], a[2] * b[2])
      [] op = "SLASH" -> Rat(a[1] * b[2], a[2] * b[1])

DivisionByZero(op, b) == op = "SLASH" /\ b.num[1] = 0

\* The run failed in DIV: the sentinel -1, and no quotient on the stack.
FailedInDiv(a) ==
    /\ vm.status = "error"
    /\ vm.result = Dbl(-1)
    /\ vm.error = "VM Error: Division by zero."
    /\ vm.stack = <<a.num>>
    /\ output = <<>>

\* C10: for numeric a and b, literals or variables holding them, the code
\* of a op b leaves a op b with a as the left operand; a / 0 fails with the
\* error sentinel and pushes no quotient; var a=20; var b=4; with the
\* prints of a+b, a-b, a*b, a/b writes 24, 16, 80, 5.
C10_Arithmetic ==
    /\ \A a \in NumLits, b \in NumLits, op \in ArithOps :
          /\ (Finished /\ ast = BinaryExpression(a, op, b))
                => IF DivisionByZero(op, b) THEN FailedInDiv(a)
                   ELSE /\ vm.status = "halted"
                        /\ vm.result = Exact(a.num, op, b.num)
                        /\ vm.stack = <<Exact(a.num, op, b.num)>>
          /\ (Finished /\ ast = ArithVariableProgram(a, op, b))
                => IF DivisionByZero(op, b) THEN vm.status = "error" /\ output = <<>>
                   ELSE /\ vm.status = "halted"
                        /\ output = <<printValueLine(Exact(a.num, op, b.num))>>
    /\ (vm.status = "halted" /\ ast = ArithmeticTest) => output = <<"24", "16", "80", "5">>

\* C10 is exercised: 20 - 5/2 has run and left 35/2.
C10_Witness ==
    /\ vm.status = "halted"
    /\ ast = BinaryExpression(IntLit(20), "MINUS", FloatLit(5, 2))
    /\ vm.result = Rat(35, 2)

----------------------------------------------------------------------------
(* The VM on programs handed to it directly.                               *)

\* The instruction the VM is about to execute, if it is running inside the
\* program.
Fetching(i) ==
    /\ vm.status = "running"
    /\ vmInLoop(vm)
    /\ vm.bytecode[vm.pc + 1].instruction = i

ValidIndex(pool, value) == toInt(value) >= 0 /\ toInt(value) < Len(pool)

\* The VM is about to execute a CONCAT_STRING on two valid pool indices.
AtConcat ==
    /\ Fetching("CONCAT_STRING")
    /\ Len(vm.stack) >= 2
    /\ ValidIndex(vm.string_literals, vm.stack[Len(vm.stack)])
    /\ ValidIndex(vm.string_literals, vm.stack[Len(vm.stack) - 1])

\* One entry pool[i] ++ pool[j] is appended, i the index pushed first; its
\* index replaces the two indices on the stack; the old entries stay.
ConcatEffect ==
    LET n == Len(vm.stack)
        j == toInt(vm.stack[n])
        i == toInt(vm.stack[n - 1])
        pool == vm.string_literals
    IN  /\ vm'.string_literals = pool \o <<pool[i + 1] \o pool[j + 1]>>
        /\ vm'.stack = SubSeq(vm.stack, 1, n - 2) \o <<Dbl(Len(pool))>>
        /\ vm'.status = "running"

ConcatPrinted ==
    /\ \A p \in CompiledPrograms \cup {VMProgram(ConcatCode, Greeting)} :
          (Finished /\ trace.loaded = p) => (vm.status = "halted" /\ output = <<"Hello, World!">>)
    /\ (Finished /\ trace.loaded = VMProgram(ConcatTwiceCode, Letters))
          => (output = <<"baa">> /\ vm.string_literals = <<"a", "b", "ba", "baa">>)

\* C11: CONCAT_STRING on the pool indices i (pushed first) and j appends the
\* one entry pool[i] ++ pool[j] at the index of the previous pool length,
\* pushes that index and leaves the existing entries unchanged; printing
\* "Hello, " + "World!", on literals or on variables, writes Hello, World!.
C11_ConcatString ==
    /\ []ConcatPrinted
    /\ [][AtConcat => ConcatEffect]_vars

\* C11 is exercised: Test 4 has run to its HALT with the pool grown by one.
C11_Witness ==
    /\ vm.status = "halted"
    /\ trace.loaded = Compiled(ConcatVariableTest)
    /\ output = <<"Hello, World!">>
    /\ vm.string_literals = <<"Hello, ", "World!", "Hello, World!">>


NotHalted == "VM Error: Program did not halt. Missing HALT instruction or infinite loop."

\* The program counter is outside the instruction sequence.
OutsideProgram == vm.pc < 0 \/ vm.pc >= Len(vm.bytecode)

HaltEffect ==
    /\ vm'.status = "halted"
    /\ vm'.result = IF vm.stack = <<>> THEN Dbl(0) ELSE vm.stack[Len(vm.stack)]

FatalEffect ==
    /\ vm'.status = "error"
    /\ vm'.result = Dbl(-1)
    /\ vm'.error = NotHalted
    /\ output' = output

RunsOff ==
    {VMProgram(NoHaltCode, <<>>), VMProgram(<<>>, <<>>), VMProgram(JumpOutCode(9), <<>>),
     VMProgram(JumpOutCode(-1), <<>>), VMProgram(JumpIfOutCode, <<>>)}

HaltOutcomes ==
    /\ \A p \in RunsOff :
          (Finished /\ trace.loaded = p)
              => (vm.status = "error" /\ vm.result = Dbl(-1) /\ vm.error = NotHalted)
    /\ (Finished /\ trace.loaded = VMProgram(HaltValueCode, <<>>))
          => (vm.status = "halted" /\ vm.result = Rat(5, 2))
    /\ (Finished /\ trace.loaded = VMProgram(HaltEarlyCode, <<>>))
          => (vm.status = "halted" /\ vm.result = Dbl(0) /\ output = <<"3">>)

\* C12: run ends successfully only by executing HALT, with the top of the
\* stack, or 0 on an empty stack, as its result; when the program counter
\* is at or past the end of the instructions (by falling off or by a jump
\* to a target outside them) the run ends in the fatal error.
C12_HaltOrFatal ==
    /\ []HaltOutcomes
    /\ [][Fetching("HALT") => HaltEffect]_vars
    /\ [][(vm.status = "running" /\ vm'.status = "halted") => Fetching("HALT")]_vars
    /\ [][(vm.status = "running" /\ OutsideProgram) => FatalEffect]_vars

\* C12 is exercised: a JUMP to a target behind the last instruction has
\* ended the run in the fatal error, the HALT before the target not run.
C12_Witness ==
    /\ vm.status = "error"
    /\ trace.loaded = VMProgram(JumpOutCode(9), <<>>)
    /\ vm.error = NotHalted
    /\ vm.pc = 9
    /\ trace.executed = {0, 1}

KnownInstructions ==
    {"PUSH_INT", "PUSH_FLOAT", "PUSH_STRING", "ADD", "SUB", "MUL", "DIV", "NEGATE", "POP",
     "STORE", "LOAD", "HALT", "JUMP_IF_FALSE", "JUMP", "JUMP_IF_TRUE", "NOT", "AND", "OR",
     "CONCAT_STRING", "PRINT_VALUE", "PRINT_STRING"} \cup ComparisonOps

\* The instruction the VM is about to execute faults.
AtFault ==
    /\ vm.status = "running"
    /\ ~OutsideProgram
    /\ LET i == vm.bytecode[vm.pc + 1].instruction
           n == Len(vm.stack)
           top == vm.stack[n]
       IN  \/ i \in {"ADD", "SUB", "MUL", "DIV", "STORE", "CONCAT_STRING"} \cup ComparisonOps
              /\ n < 2
           \/ i \in {"NEGATE", "POP", "LOAD", "NOT", "JUMP_IF_FALSE", "JUMP_IF_TRUE",
                     "PRINT_VALUE", "PRINT_STRING"}
              /\ n < 1
           \/ i = "DIV" /\ n >= 2 /\ top[1] = 0
           \/ i = "STORE" /\ n >= 2 /\ toInt(top) < 0
           \/ i = "LOAD" /\ n >= 1 /\ (toInt(top) < 0 \/ toInt(top) >= Len(vm.memory))
           \/ i = "CONCAT_STRING" /\ n >= 2
              /\ ~(ValidIndex(vm.string_literals, top)
                   /\ ValidIndex(vm.string_literals, vm.stack[n - 1]))
           \/ i = "PRINT_STRING" /\ n >= 1 /\ ~ValidIndex(vm.string_literals, top)
           \/ i \in {"AND", "OR"}
           \/ i \notin KnownInstructions

IsPrefix(a, b) == Len(a) <= Len(b) /\ SubSeq(b, 1, Len(a)) = a

FaultOutcomes ==
    /\ \A f \in Faulting :
          (Finished /\ trace.loaded = VMProgram(FaultCode(f), <<>>))
              => (vm.status = "error" /\ vm.result = Dbl(-1) /\ output = <<"2">>)
    /\ (Finished /\ trace.loaded = VMProgram(ConcatInvalidCode, Letters))
          => (vm.status = "error" /\ vm.result = Dbl(-1) /\ output = <<"b">>)

\* C13: a faulting instruction (stack underflow, division by zero, negative
\* or out-of-bounds address, invalid pool index, AND/OR, unknown opcode) ends
\* the run with the sentinel -1 and nothing is executed after it; the
\* prints before the fault have written their lines in order and no print
\* after it writes anything.
C13_FaultStopsRun ==
    /\ []FaultOutcomes
    /\ [][AtFault => (vm'.status = "error" /\ vm'.result = Dbl(-1) /\ output' = output)]_vars
    /\ [][(vm.status = "error" /\ vm' # vm) => trace'.runs = trace.runs + 1]_vars
    /\ [][trace'.runs = trace.runs => (IsPrefix(output, output')
                                        /\ (vm.status = "error" => output' = output))]_vars

\* C13 is exercised: print 2; 4 / 0; print 4; has stopped in DIV.
C13_Witness ==
    /\ vm.status = "error"
    /\ trace.loaded
         = VMProgram(FaultCode(<<Ins("PUSH_INT", 4), Ins("PUSH_INT", 0), Ins("DIV", 0)>>), <<>>)
    /\ vm.error = "VM Error: Division by zero."
    /\ output = <<"2">>
    /\ trace.executed = 0..4

\* The loop of run on v, for at most fuel iterations.
RECURSIVE RunLoop(_, _, _)
RunLoop(v, out, fuel) ==
    IF v.status # "running" \/ fuel = 0 THEN [vm |-> v, output |-> out]
    ELSE RunLoop(vmStep(v),
                 IF vmInLoop(v) THEN out \o vmPrinted(v, v.bytecode[v.pc + 1]) ELSE out,
                 fuel - 1)

\* The outcome of run(p.code, p.pool) on a VM that never ran.
FreshOutcome(p) ==
    LET r == RunLoop(vmRunEntry(NewVM, p.code, p.pool), <<>>, Len(p.code) + 1)
    IN  Outcome(p, r.vm, r.output)

\* A call of run has just reset the VM.
AtEntry == vm.status = "running" /\ trace.executed = {}

\* C14: every call of run starts with an empty stack, empty memory, program
\* counter 0 and the pool passed in; a call on (program, pool) yields the
\* result and output it yields on a VM that never ran, whatever ran before
\* (failed runs, runs that grew the pool or wrote memory).
C14_RunIndependence ==
    /\ AtEntry => /\ vm.stack = <<>>
                  /\ vm.memory = <<>>
                  /\ vm.pc = 0
                  /\ vm.string_literals = trace.loaded.pool
                  /\ vm.bytecode = trace.loaded.code
    /\ Finished => Outcome(trace.loaded, vm, output) = FreshOutcome(trace.loaded)
    /\ \A e1 \in trace.log, e2 \in trace.log :
          (e1.code = e2.code /\ e1.pool = e2.pool) => e1 = e2

\* C14 is exercised: a LOAD of cell 0 run after a program that wrote cell 0
\* has failed, as it does on a fresh VM.
C14_Witness ==
    /\ trace.runs = 2
    /\ vm.status = "error"
    /\ trace.loaded = VMProgram(LoadCode, <<>>)
    /\ \E e \in trace.log : e.code = StoreCode /\ e.status = "halted"


\* The step is a call of the stand-alone table's method op.
TableStep(op) == tableHist'.ops = tableHist.ops + 1 /\ tableHist'.last = op

\* C15: the global scope is permanent: exitScope on a table holding only
\* the global scope changes neither the scope stack, nor its symbols, nor
\* the address counter (it only warns), and every table, stand-alone or
\* owned by a Compiler, holds at least one scope at all times.
C15_GlobalScopePermanent ==
    /\ [](Len(table.scopes) >= 1 /\ Len(compiler.symbolTable.scopes) >= 1)
    /\ [][(TableStep("exitScope") /\ Len(table.scopes) = 1)
             => (table' = table /\ ~tableHist'.ok)]_vars
    /\ [][(TableStep("exitScope") /\ Len(table.scopes) > 1)
             => (Len(table'.scopes) = Len(table.scopes) - 1 /\ tableHist'.ok)]_vars

\* C15 is exercised: exitScope has been refused on a table whose only scope
\* is the global one, which still holds the symbol declared before.
C15_Witness ==
    /\ tableHist.last = "exitScope"
    /\ ~tableHist.ok
    /\ Len(table.scopes) = 1
    /\ DOMAIN table.scopes[1] = {"x"}
    /\ table.next_address = 1

\* addSymbol(name, type) on the table succeeds or fails as told by ok and
\* changes the table accordingly.
AddSymbolEffect(name, type, ok) ==
    LET n == Len(table.scopes)
        inner == table.scopes[n]
    IN  /\ ok <=> name \notin DOMAIN inner
        /\ ~ok => table' = table
        /\ ok => /\ Len(table'.scopes) = n
                 /\ \A i \in 1..(n - 1) : table'.scopes[i] = table.scopes[i]
                 /\ DOMAIN table'.scopes[n] = DOMAIN inner \cup {name}
                 /\ \A k \in DOMAIN inner : table'.scopes[n][k] = inner[k]
                 /\ table'.scopes[n][name] = Symbol(name, type, table.next_address)
                 /\ table'.next_address = table.next_address + 1

\* C16: addSymbol returns false exactly when the name is already bound in
\* the innermost scope (a binding in an outer scope does not count); a
\* failed call changes nothing and a successful call adds one binding, to
\* the innermost scope only.
C16_AddSymbol ==
    [][TableStep("addSymbol")
          => AddSymbolEffect(tableHist'.name, tableHist'.type, tableHist'.ok)]_vars

\* C16 is exercised: x is bound in the global scope and, by a later
\* successful call, in an inner scope too.
C16_Witness ==
    /\ tableHist.last = "addSymbol"
    /\ tableHist.ok
    /\ Len(table.scopes) = 2
    /\ "x" \in DOMAIN table.scopes[1]
    /\ "x" \in DOMAIN table.scopes[2]
    /\ table.scopes[2]["x"].address = 1


\* The programs that declare x without initializer and then assign to it.
InferencePrograms == InferPrograms \cup {AssignProgram(Null, j, e) : j \in AssignOthers, e \in AssignValues}

IsTargetX(e) == e.name = "x"

\* The type checks of the assignments to x, in the order they were lowered.
AssignmentsToX == SelectSeq(hist.assigns, IsTargetX)

Resolvable(t) == UNION {DOMAIN t.scopes[i] : i \in 1..Len(t.scopes)}

\* A symbol of an earlier compile call was used by the last one: the first
\* call failed inside the inner block of { var x = 4; { var y = "s";
\* print(u); } } and the second call compiled print(x).
LeakedSymbolUsed ==
    /\ ncompiles = 2
    /\ compiled = "returned"
    /\ ast = PrintStatement(Var("x"))
    /\ hist.created = <<>>
    /\ hist.allCreated = <<Symbol("x", "INTEGER", 0), Symbol("y", "STRING_LITERAL", 1)>>
    /\ program = <<Ins("PUSH_INT", 0), Ins("LOAD", 0), Ins("PRINT_VALUE", 0), Ins("HALT", 0)>>

\* C18: when compile returns, successfully or not, the scope stack is as
\* deep as before the call and none of the symbols declared during the call
\* is resolvable any more (so a later call cannot use them).
C18_ScopesBalanced ==
    compiled = "returned"
        => /\ Len(compiler.symbolTable.scopes) = Len(hist.scopesBefore)
           /\ Resolvable(compiler.symbolTable) = Resolvable([scopes |-> hist.scopesBefore])
           /\ ~LeakedSymbolUsed


\* Programs made of declarations and a final print, the last declaration
\* initialized by a sum over variables.
InitializedDeclarations ==
    {p \in InitializerPrograms : p.statements[2].initializer.kind = "BinaryExpression"}
    \cup {StringSumProgram}

\* The symbol table in front of the k-th declaration of such a program: the
\* global scope, the scope of the call, and the scope of the block with the
\* symbols created so far.
RECURSIVE DeclaredBefore(_)
DeclaredBefore(k) ==
    IF k = 1 THEN enterScope(enterScope(NewSymbolTable))
    ELSE addSymbol(DeclaredBefore(k - 1), hist.created[k - 1].name, hist.created[k - 1].type)

\* C19: the type recorded for x by `var x = E` is the type
\* resolveExpressionType yields for E, identifiers at any depth of E being
\* resolved through the symbol table; it is Unknown only without
\* initializer.
C19_DeclaredTypeResolved ==
    (compiled = "returned" /\ ncompiles = 1 /\ ast \in InitializedDeclarations)
        => \A k \in 1..Len(hist.created) :
              /\ hist.created[k].type
                    = resolveExpressionType(ast.statements[k].initializer, DeclaredBefore(k))
              /\ hist.created[k].type # "UNKNOWN"


\* The line print(e) is to write for a literal e: the string itself, a
\* number in its numeric form, a boolean as false or true.
PrintedForm(e) ==
    IF e.kind = "BooleanLiteral" THEN (IF e.tok = "TRUE" THEN "true" ELSE "false")
    ELSE IF e.tok = "STRING_LITERAL" THEN e.text
    ELSE FormatDouble(e.num)

IsString(e) == e.kind = "Literal" /\ e.tok = "STRING_LITERAL"

\* The VM is about to execute a print on a non-empty stack.
AtPrint ==
    /\ vm.stack # <<>>
    /\ \/ Fetching("PRINT_VALUE")
       \/ Fetching("PRINT_STRING") /\ ValidIndex(vm.string_literals, vm.stack[Len(vm.stack)])

DepthAt(pc) == (CHOOSE e \in trace.depths : e[1] = pc)[2]

\* The VM is about to execute the instruction at index pc.
At(pc) == vm.status = "running" /\ vm.pc = pc

\* The steps through the code of the && or || of sp: the conditional jump
\* pops the left value and goes to the landing pad or to the right operand;
\* the JUMP that ends the right operand finds one value in place of the
\* left one and goes to the end; the landing pad pushes 0 (&&) or 1 (||)
\* in place of the left value and arrives at the same end.
LogicalSteps(sp) ==
    /\ At(sp.jump)
          => /\ vm'.stack = SubSeq(vm.stack, 1, Len(vm.stack) - 1)
             /\ vm'.pc = IF (sp.kind = "AND") = (vm.stack[Len(vm.stack)][1] = 0)
                         THEN sp.bFrom ELSE sp.aFrom
             /\ vm'.status = "running"
    /\ At(sp.bFrom - 1)
          => /\ ~LeftDecides(sp)
             /\ Len(vm.stack) = DepthAt(sp.jump)
             /\ vm'.stack = vm.stack
             /\ vm'.pc = sp.end
    /\ At(sp.bFrom)
          => /\ LeftDecides(sp)
             /\ vm'.stack = Append(vm.stack, Dbl(IF sp.kind = "AND" THEN 0 ELSE 1))
             /\ Len(vm'.stack) = DepthAt(sp.jump)
             /\ vm'.pc = sp.end

LogicalValues ==
    /\ (vm.status = "halted" /\ ast = LogicalTest)
          => output = <<"false", "true", "false", "true">>
    /\ (vm.status = "halted" /\ ast = ShortCircuitProgram(IntLit(4), "AND", Var("x")))
          => output = <<"5", "5">>
    /\ (vm.status = "halted" /\ ast = ShortCircuitProgram(IntLit(0), "OR", Var("x")))
          => output = <<"5", "5">>
    /\ (vm.status = "halted" /\ ast = ShortCircuitProgram(IntLit(0), "AND", Var("x")))
          => output = <<"false", "5">>

\* C21: the code of L && R leaves one value in place of the expression, 0
\* when L is 0 and the value of R otherwise; that of L || R leaves 1 when L
\* is not 0 and the value of R otherwise; both paths arrive at the same
\* instruction with the same stack depth, L's value popped.  With p = true
\* and q = false, p && q is 0 and p || q is 1.
C21_LogicalValue ==
    /\ []LogicalValues
    /\ [][\A i \in 1..Len(hist.spans) :
             hist.spans[i].kind \in {"AND", "OR"} => LogicalSteps(hist.spans[i])]_vars

\* C21 is exercised: 4 && x with x = 5 has left the value of x.
C21_Witness ==
    /\ vm.status = "halted"
    /\ ast = ShortCircuitProgram(IntLit(4), "AND", Var("x"))
    /\ output = <<"5", "5">>
    /\ Len(hist.spans) = 1
    /\ ~LeftDecides(hist.spans[1])
    /\ hist.spans[1].jump \in trace.executed


JumpInstructions == {"JUMP", "JUMP_IF_FALSE", "JUMP_IF_TRUE"}

\* The instruction at index k of the compiled program.
ProgramAt(k) == program[k + 1]

\* The if of sp has an else branch: a JUMP follows its then branch.
HasElse(sp) == sp.bFrom = sp.aTo + 2

\* The jumps of the if of sp carry their targets.
IfPatched(sp) ==
    /\ ProgramAt(sp.jump) = Ins("JUMP_IF_FALSE", sp.bFrom)
    /\ \/ HasElse(sp) /\ ProgramAt(sp.aTo + 1) = Ins("JUMP", sp.end) /\ sp.end = sp.bTo + 1
       \/ sp.bFrom = sp.aTo + 1 /\ sp.end = sp.bFrom

\* The indices of the jumps the spans account for.
SpanJumps ==
    {hist.spans[i].jump : i \in 1..Len(hist.spans)}
    \cup {hist.spans[i].bFrom - 1 :
             i \in {j \in 1..Len(hist.spans) :
                      hist.spans[j].kind \in {"AND", "OR"} \/ HasElse(hist.spans[j])}}

\* Test 1 as compiled: x at 0, y at 1, the strings at 0..3.
IfElseTestCode ==
    <<Ins("PUSH_INT", 10), Ins("PUSH_INT", 0), Ins("STORE", 0),
      Ins("PUSH_INT", 5), Ins("PUSH_INT", 1), Ins("STORE", 0),
      Ins("PUSH_STRING", 0), Ins("PRINT_STRING", 0),
      Ins("PUSH_INT", 0), Ins("LOAD", 0), Ins("PUSH_INT", 1), Ins("LOAD", 0), Ins("GREATER", 0),
      Ins("JUMP_IF_FALSE", 17),
      Ins("PUSH_STRING", 1), Ins("PRINT_STRING", 0),
      Ins("JUMP", 28),
      Ins("PUSH_INT", 0), Ins("LOAD", 0), Ins("PUSH_INT", 1), Ins("LOAD", 0),
      Ins("EQUAL_EQUAL", 0),
      Ins("JUMP_IF_FALSE", 26),
      Ins("PUSH_STRING", 2), Ins("PRINT_STRING", 0),
      Ins("JUMP", 28),
      Ins("PUSH_STRING", 3), Ins("PRINT_STRING", 0),
      Ins("HALT", 0)>>

\* C22: in a compiled program the JUMP_IF_FALSE of an if points at the
\* first instruction of the else branch (right after the then branch's
\* JUMP) or, without else, right after the then branch; the JUMP is there
\* iff there is an else branch and points right after it; no jump keeps the
\* placeholder 0, also in nested ifs and else-if chains.
C22_IfBackpatched ==
    (compiled = "returned" /\ program # <<>>)
        => /\ \A i \in 1..Len(hist.spans) :
                 hist.spans[i].kind = "IF" => IfPatched(hist.spans[i])
           /\ \A k \in 0..(Len(program) - 1) :
                 ProgramAt(k).instruction \in JumpInstructions
                    => (k \in SpanJumps /\ ProgramAt(k).operand # Dbl(0))
           /\ \A ab \in IfOperands, c \in IfConditions, t \in IfThens, e \in IfElses :
                 ast = IfProgram(ab, c, t, e)
                    => /\ hist.spans # <<>>
                       /\ HasElse(hist.spans[Len(hist.spans)]) <=> e.kind # "Null"
                       /\ hist.spans[Len(hist.spans)].kind = "IF"
           /\ ast = IfElseTest => program = IfElseTestCode

\* C22 is exercised: the else-if chain of Test 1 is compiled, with both
\* conditional jumps and both JUMPs patched.
C22_Witness ==
    /\ compiled = "returned"
    /\ ast = IfElseTest
    /\ Len(hist.spans) = 2
    /\ ProgramAt(13) = Ins("JUMP_IF_FALSE", 17)
    /\ ProgramAt(16) = Ins("JUMP", 28)
    /\ ProgramAt(22) = Ins("JUMP_IF_FALSE", 26)
    /\ ProgramAt(25) = Ins("JUMP", 28)


\* No AND and no OR opcode in code.
LogicalFree(code) == \A k \in 1..Len(code) : code[k].instruction \notin {"AND", "OR"}

\* The Programs compile returns on Compiler c for the ASTs of the model.
ReturnedPrograms(c) ==
    {s.bytecode : s \in {t \in {compile(c, a, ub) : a \in Programs, ub \in UBOutcomes} :
                            ~t.crashed}}

\* C23: no Program returned by compile holds an AND or OR opcode; a run
\* that meets one ends in the fatal error and neither pops nor pushes.
C23_LogicalOpcodes ==
    /\ [](trace.runs = 0 => \A code \in ReturnedPrograms(NewCompiler) : LogicalFree(code))
    /\ [](trace.loaded = Compiled(LogicalTest)
            => (LogicalFree(trace.loaded.code) /\ (Finished => vm.status = "halted")))
    /\ [][(Fetching("AND") \/ Fetching("OR"))
             => /\ vm'.status = "error"
                /\ vm'.result = Dbl(-1)
                /\ vm'.stack = vm.stack
                /\ output' = output]_vars

\* C23 is exercised: print 2; 1 AND 1; print 4 has stopped at the AND with
\* both operands still on the stack, and the compiled p && q and p || q of
\* Test 3 are among the programs run.
C23_Witness ==
    /\ vm.status = "error"
    /\ trace.loaded
         = VMProgram(FaultCode(<<Ins("PUSH_INT", 1), Ins("PUSH_INT", 1), Ins("AND", 0)>>), <<>>)
    /\ vm.stack = <<Dbl(1), Dbl(1)>>
    /\ output = <<"2">>
    /\ \E e \in trace.log : e.code = Compiled(LogicalTest).code /\ e.status = "halted"


\* The type of an operand of the typing programs, from their declarations.
DeclaredType(operand) ==
    CASE operand \in {Var("i"), IntLit(4)} -> "Integer"
      [] operand = Var("f") -> "Float"
      [] operand \in {Var("s"), StrLit("t")} -> "String"
      [] operand = Var("b") -> "Boolean"
      [] operand = Var("u") -> "Unknown"

\* The operand types lt and rt satisfy the class of op.
Satisfies(op, lt, rt) ==
    \/ op = "PLUS" /\ lt = "String" /\ rt = "String"
    \/ op \in {"PLUS", "MINUS", "STAR", "SLASH"} \cup ComparisonOps
       /\ {lt, rt} \subseteq {"Integer", "Float"}
    \/ op \in {"AND", "OR"} /\ {lt, rt} \subseteq {"Boolean", "Integer"}

\* The last instruction lowered from `l op r`.
LoweredTo(op, lt) ==
    CASE op = "PLUS" /\ lt = "String" -> Ins("CONCAT_STRING", 0)
      [] op = "PLUS" /\ lt # "String" -> Ins("ADD", 0)
      [] op = "MINUS" -> Ins("SUB", 0)
      [] op = "STAR" -> Ins("MUL", 0)
      [] op = "SLASH" -> Ins("DIV", 0)
      [] op = "AND" -> Ins("PUSH_INT", 0)
      [] op = "OR" -> Ins("PUSH_INT", 1)
      [] OTHER -> Ins(op, 0)

\* C24: a binary expression compiles iff the resolved types of its
\* operands satisfy the class of its operator: string + string
\* (CONCAT_STRING) or numbers (ADD) for +; numbers for -, *, / and the six
\* comparisons; booleans or integers for && and ||.  Any other combination,
\* also with an operand of type Unknown, gives the empty Program.
C24_BinaryOperandTyping ==
    (compiled = "returned" /\ ast \in TypingPrograms)
       => LET e == ast.statements[7].expression
              lt == DeclaredType(e.left)
              rt == DeclaredType(e.right)
          IN  /\ program # <<>> <=> Satisfies(e.op, lt, rt)
              /\ program # <<>>
                    => /\ program[Len(program) - 2] = LoweredTo(e.op, lt)
                       /\ program[Len(program)] = Ins("HALT", 0)
                       /\ diag = <<>>
              /\ program = <<>> => (hist.failed /\ Len(diag) = 1)

\* C24 is exercised: s + i was rejected.
C24_Witness ==
    /\ compiled = "returned"
    /\ ast = TypingProgram(Var("s"), "PLUS", Var("i"))
    /\ program = <<>>
    /\ diag = <<"Compiler Error: Operator '+' requires two numeric operands or two string operands for concatenation.">>
    /\ Len(hist.created) = 5

-----------------------------------------------------------------------------
(* Stack discipline of compiled code.                                      *)

\* Control can pass from the instruction at index j to the one at index k.
Flows(code, j, k) ==
    LET i == code[j + 1] IN
    \/ i.instruction \notin {"JUMP", "HALT"} /\ k = j + 1
    \/ i.instruction \in JumpInstructions /\ toInt(i.operand) = k

\* For each of the first n instructions, the stack depths at which some
\* control-flow path from index 0 reaches it.
RECURSIVE StackDepths(_, _)
StackDepths(code, n) ==
    IF n = 0 THEN <<>>
    ELSE LET before == StackDepths(code, n - 1)
             k == n - 1
             incoming == UNION {{d + NetEffect(code[j + 1].instruction) : d \in before[j + 1]} :
                                  j \in {j \in 0..(k - 1) : Flows(code, j, k)}}
         IN  Append(before, IF k = 0 THEN {0} ELSE incoming)

\* Every instruction is reachable, and on every path that reaches it the
\* stack holds what the instruction pops.
StackConsistent(code) ==
    LET depths == StackDepths(code, Len(code)) IN
    \A k \in 1..Len(code) :
       /\ depths[k] # {}
       /\ \A d \in depths[k] : d >= Pops(code[k].instruction)

\* The depths at which index k of code is reached.
StaticDepths(code, k) == StackDepths(code, k + 1)[k + 1]

Lowest(depths) == CHOOSE d \in depths : \A e \in depths : d <= e

\* A short-circuit expression leaves one value where its left operand left
\* one, on the path that skips the right operand and on the path through
\* it; an if statement leaves the stack no lower than it found it.
SpanBalanced(code, sp) ==
    IF sp.kind \in {"AND", "OR"}
    THEN /\ StaticDepths(code, sp.end) = StaticDepths(code, sp.jump)
         /\ StaticDepths(code, sp.bFrom) = {d - 1 : d \in StaticDepths(code, sp.jump)}
         /\ StaticDepths(code, sp.bFrom - 1) = StaticDepths(code, sp.jump)
    ELSE Lowest(StaticDepths(code, sp.end)) >= Lowest(StaticDepths(code, sp.jump)) - 1

Underflows ==
    {"VM Error: Stack underflow for ADD.", "VM Error: Stack underflow for SUB.",
     "VM Error: Stack underflow for MUL.", "VM Error: Stack underflow for DIV.",
     "VM Error: Stack underflow for NEGATE.", "VM Error: Stack underflow for POP.",
     "VM Error: Stack underflow for STORE.", "VM Error: Stack underflow for LOAD.",
     "VM Error: Stack underflow for JUMP_IF_FALSE.",
     "VM Error: Stack underflow for JUMP_IF_TRUE.",
     "VM Error: Stack underflow for comparison.", "VM Error: Stack underflow for NOT.",
     "VM Error: Stack underflow for CONCAT_STRING.",
     "VM Error: Stack underflow for PRINT_VALUE.",
     "VM Error: Stack underflow for PRINT_STRING."}

\* The compiled program is stack-consistent and its spans are balanced.
DisciplinedProgram ==
    (compiled = "returned" /\ program # <<>> /\ trace.runs = 0) =>
       /\ StackConsistent(program)
       /\ \A i \in 1..Len(hist.spans) : SpanBalanced(program, hist.spans[i])

\* A run of a compiled program meets every instruction with its operands
\* on the stack and never reports an underflow.
DisciplinedRun ==
    /\ vm.status = "error" => vm.error \notin Underflows
    /\ (vm.status = "running" /\ vmInLoop(vm)) =>
          Len(vm.stack) >= Pops(vm.bytecode[vm.pc + 1].instruction)

\* C25: a Program returned by a successful compile never fails with a stack
\* underflow: on every control-flow path each instruction is reached at a
\* depth that covers the values it pops, a short-circuit expression leaves
\* exactly one value, an if statement leaves the stack no lower than it
\* found it, and no run reports an underflow.
C25_StackDiscipline == DisciplinedProgram /\ DisciplinedRun

\* Test 2 has run to its HALT: the two declarations each left their value,
\* the prints consumed the value of the assignment and of the read.
C25_Witness ==
    /\ ast = AssignmentTest
    /\ vm.status = "halted"
    /\ Len(vm.stack) = 2
    /\ StackConsistent(program)
    /\ <<Len(program) - 1, 2>> \in trace.depths

-----------------------------------------------------------------------------
(* Termination of compiled code.                                           *)

\* Every jump of code goes forward and stays inside code.
ForwardJumps(code) ==
    \A k \in 1..Len(code) :
       code[k].instruction \in JumpInstructions =>
          /\ toInt(code[k].operand) > k - 1
          /\ toInt(code[k].operand) <= Len(code) - 1

\* The one HALT of code is its last instruction.
FinalHalt(code) ==
    /\ code[Len(code)].instruction = "HALT"
    /\ \A k \in 1..(Len(code) - 1) : code[k].instruction # "HALT"

\* The VM is running a non-empty Program that compile returned.
RunningCompiled == vm.status = "running" /\ trace.loaded.code # <<>>

\* The run, with weak fairness of the one step of the loop of VM::run: the
\* loop has no suspension point.
SpecLive == Init /\ [][Next]_vars /\ WF_vars(Step)

\* C26: in every Program compile returns, each jump operand is greater than
\* the jump's own index and at most the index of the final HALT; in a run of
\* a returned (non-empty) Program the program counter strictly increases,
\* at most program-length instructions are executed, the run never falls
\* off the end, and it always returns.
C26_Terminates ==
    /\ [](compiled = "returned" =>
            /\ ForwardJumps(program)
            /\ program # <<>> => FinalHalt(program))
    /\ [](trace.loaded.code # <<>> =>
            /\ Cardinality(trace.executed) <= Len(trace.loaded.code)
            /\ vm.pc <= Len(trace.loaded.code)
            /\ vm.status = "error" => vm.error # NotHalted
            /\ vm.status = "running" => vmInLoop(vm))
    /\ [][(RunningCompiled /\ vm' # vm) =>
             /\ vm'.pc > vm.pc
             /\ vm.pc \notin trace.executed]_vars
    /\ (RunningCompiled ~> Finished)

\* Test 1 has run to its HALT through a taken forward jump: fewer
\* instructions were executed than the Program holds.
C26_Witness ==
    /\ ast = IfElseTest
    /\ vm.status = "halted"
    /\ ForwardJumps(program)
    /\ \E k \in 1..Len(program) : program[k].instruction = "JUMP_IF_FALSE"
    /\ Cardinality(trace.executed) < Len(program)
    /\ Len(program) - 1 \in trace.executed

-----------------------------------------------------------------------------
(* Memory safety of compiled code.                                         *)

InvalidLoad == "VM Error: Invalid memory address for LOAD"

\* The LOAD about to be executed reads a cell the memory holds.
LoadInMemory ==
    (Fetching("LOAD") /\ vm.stack # <<>>) =>
       /\ toInt(Top(vm.stack)) >= 0
       /\ toInt(Top(vm.stack)) < Len(vm.memory)

\* C27: a run of a Program returned by a successful compile never fails with
\* an invalid memory address: every LOAD executed reads a non-negative
\* address below the current memory size, also for variables declared
\* without initializer or assigned only on a branch that was not taken.
C27_MemorySafe ==
    (ncompiles = 1 /\ trace.loaded.code # <<>> /\ trace.loaded.code = program) =>
       /\ LoadInMemory
       /\ vm.status = "error" => vm.error # InvalidLoad

-----------------------------------------------------------------------------
(* Strings and numbers at run time.                                        *)

InvalidIndex ==
    {"VM Error: Invalid string literal index for PRINT_STRING.",
     "VM Error: Invalid string literal index for CONCAT_STRING."}

\* C28: in a run of a successfully compiled program every value popped as a
\* pool index by CONCAT_STRING or PRINT_STRING was produced by PUSH_STRING or
\* CONCAT_STRING and is a valid index of the pool, and no value produced by
\* PUSH_STRING or CONCAT_STRING is consumed by an arithmetic, negation,
\* comparison or PRINT_VALUE instruction, also when the string passes
\* through a variable or a unary operator.
C28_NoConfusion ==
    (ncompiles = 1 /\ trace.loaded.code # <<>> /\ trace.loaded.code = program) =>
       /\ trace.confused = {}
       /\ vm.status = "error" => vm.error \notin InvalidIndex

-----------------------------------------------------------------------------
(* Declaration order in var x = E.                                         *)

\* How often node names the variable, reading or writing it.
RECURSIVE OccurrencesOf(_, _)
OccurrencesOf(node, name) ==
    CASE node.kind = "IdentifierExpression" -> IF node.name = name THEN 1 ELSE 0
      [] node.kind = "AssignmentExpression" ->
            (IF node.name = name THEN 1 ELSE 0) + OccurrencesOf(node.value, name)
      [] node.kind = "BinaryExpression" ->
            OccurrencesOf(node.left, name) + OccurrencesOf(node.right, name)
      [] node.kind = "UnaryExpression" -> OccurrencesOf(node.right, name)
      [] OTHER -> 0

\* The accesses (PUSH_INT address; LOAD or STORE) to address in code behind
\* index from.
Accesses(code, from, address) ==
    {k \in (from + 1)..(Len(code) - 1) :
        /\ code[k] = Ins("PUSH_INT", address)
        /\ code[k + 1].instruction \in {"LOAD", "STORE"}}

\* The compile of OrderProgram(o, e) on a fresh Compiler: the inner x gets
\* the next address and the type derived from the table without it; E and
\* the print use the inner x only.
OrderResolved(o, e) ==
    LET outer == o.kind # "Null"
        address == IF outer THEN 1 ELSE 0
        from == IF outer THEN 5 ELSE 2
        type == IF e.kind = "IdentifierExpression" THEN literalGetType(o) ELSE getType(e)
    IN  IF e.kind = "IdentifierExpression" /\ ~outer
        THEN /\ program = <<>>
             /\ diag = <<"Compiler Error: Initializer is an undeclared variable">>
        ELSE program # <<>> =>
                /\ hist.created[Len(hist.created)] = Symbol("x", type, address)
                /\ Cardinality(Accesses(program, from, address)) = OccurrencesOf(e, "x") + 2
                /\ outer => Accesses(program, from, 0) = {}
                /\ diag = <<>>

\* C29: in var x = E the symbol x is added to the current scope before E is
\* lowered: every occurrence of x inside E is lowered to the address of the
\* newly declared symbol, never to that of a same-named symbol of an outer
\* scope, and the type recorded for x is the one derived while the new
\* symbol did not exist yet.
C29_DeclarationOrder ==
    (compiled = "returned" /\ ncompiles = 1 /\ ast \in OrderPrograms) =>
       \A o \in OrderOuters, e \in OrderInitializers :
          ast = OrderProgram(o, e) => OrderResolved(o, e)

\* var x = "s"; if (true) { var x = x + 1; print(x); } has compiled: the
\* inner x is at address 1, and the x of x + 1 reads address 1, where a
\* string operand of + would have been rejected.
C29_Witness ==
    /\ compiled = "returned"
    /\ ncompiles = 1
    /\ ast = OrderProgram(StrLit("s"), BinaryExpression(Var("x"), "PLUS", IntLit(1)))
    /\ program # <<>>
    /\ Cardinality(Accesses(program, 5, 1)) = 3
    /\ Accesses(program, 5, 0) = {}
    /\ hist.created[2] = Symbol("x", "INTEGER", 1)

-----------------------------------------------------------------------------
(* The failure sentinel.                                                   *)

\* C30: run returns -1 if and only if execution ended in a runtime error; a
\* run that ends by executing HALT never returns -1.
C30_Sentinel ==
    Finished => (vm.result = Dbl(-1) <=> vm.status = "error")

====
